---- MODULE Spec2Model ----
(***************************************************************************)
(* Model of the orchestration core of pdf2ocr:                             *)
(*   - the shutdown flag of pdf2ocr/state.py and the signal handler of     *)
(*     pdf2ocr/main.py;                                                    *)
(*   - the worker-pool dispatchers process_pdfs_with_ocr and               *)
(*     process_layout_pdf_only of pdf2ocr/converters/pdf.py and            *)
(*     process_pdfs_with_ocr of pdf2ocr/main.py;                           *)
(*   - the page-batch processor extract_text_from_pdf of pdf2ocr/ocr.py.   *)
(* Two specifications share the variables: Spec runs one dispatcher with   *)
(* its pool and the interrupt sources, SpecOcr runs one text extraction.   *)
(***************************************************************************)
EXTENDS Integers, Sequences, FiniteSets, TLC

\* ---------------------------------------------------------------- bounds
MaxDocs == 2
MaxWorkers == 2
MaxPages == 3
MaxClock == 3
MaxCalls == 4

\* ------------------------------------------------------------- variables
VARIABLES
    \* configuration and document list of the run
    dispatcher,          \* "pdf" | "layout" (converters/pdf.py) | "main" |
                         \* "main_layout" (main.py) | "legacy" (converters.py)
    pdf_files,           \* number of documents in the sorted list (len(pdf_files))
    workers,             \* config.workers
    stdout_encodes,      \* sys.stdout's encoding has the check mark of the success line
    \* pdf2ocr/state.py and pdf2ocr/main.py flags
    shutdown_requested,  \* state.shutdown_requested (threading.Event): is_set()
    main_shutdown,       \* main.shutdown_requested (module global of main.py)
    requested,           \* a request_shutdown/force_exit call or a signal has happened
    forced,              \* a force-exit request was made while shutdown was requested
    \* the pool
    max_workers,         \* ProcessPoolExecutor(max_workers=...), 0 = no pool yet
    job,                 \* job[i]: "none" | "queued" | "running" | "done" | "cancelled"
    outcome,             \* outcome[i]: "none" | "ok" | "fail" | "raise"
    nowait,              \* executor.shutdown(wait=False) was called (main.py)
    finishSeq,           \* jobs in the order they finished
    \* the dispatcher thread
    pc,                  \* position of the dispatcher
    submitted,           \* number of executor.submit calls made
    acInitial,           \* as_completed: futures already finished at its start, not yet yielded
    acQueue,             \* as_completed: futures finished since, in finishing order
    cur,                 \* the future the loop variable holds (0 = none)
    delivered,           \* futures yielded by as_completed so far
    completed, successful, failed, errors,
    stream,              \* lines the dispatcher has emitted: <<document, level, text>>
    foldSeq,             \* documents in the order they were aggregated
    summary,             \* the summary block passed to log_message, if any
    notice,              \* "none" | "shutdown" | "interrupted" | "force" warning emitted
    reqK,                \* completed when shutdown was first requested (-1 = never)
    reqPc,               \* where the dispatcher was then: "none" | "before" | "loop" | "after"
    preDone,             \* futures that were finished when as_completed started
    subAfterReq,         \* a submit call was made after shutdown was requested
    \* extract_text_from_pdf
    opc,                 \* position inside extract_text_from_pdf
    total_pages, batch_unset, batch_size,
    text_pages,          \* pre-sized page array: 0 = "" (unwritten), p = text of page p
    final_text,          \* texts appended in recognition order
    pages_batch,         \* rendered images currently held (page numbers)
    batch_start, page_num,
    writes,              \* writes[i]: number of stores into slot index i (1-based page)
    oob,                 \* a store outside 1..total_pages happened
    renders,             \* render calls made: <<first, last>>, <<0, 0>> = no range
    recog_failed,        \* page whose recognition raised, 0 when none did
    page_img,            \* image bound to the loop variable page_img (page number), 0 = unbound
    combined,            \* the combined text the function returned
    \* --- one per-document job and the replay of its result
    jkind,               \* "none" | "pdf" (process_single_pdf) | "layout"
    jpc,                 \* position inside the job / the replay
    gen,                 \* config.generate_pdf / _docx / _html / _epub
    docx_asked,          \* generate_docx as the caller configured it
    log_path,            \* a log file is configured
    cfg_quiet, cfg_summary,  \* config.quiet, config.summary
    temp_bound,          \* the local temp_pdf_path has been assigned
    log_messages,        \* the job's list of (level, message) records
    result,              \* what the job returned
    calls,               \* format writers invoked: <<writer, "ok" | "fail">>
    direct,              \* what the job itself wrote to the shared console / log file
    console,             \* what the dispatcher's replay sent to log_message, and where it went
    dirs,                \* directories created so far: <<"dispatcher" | "job", directory>>
    \* the document list of one run, by name
    lpc,                 \* position of the dispatcher between listing and the loop
    dir_names,           \* the names in the source directory
    listing,             \* what os.listdir returned, in the order it returned it
    doc_list,            \* the local pdf_files: the sorted list of documents
    sub_names,           \* the filenames passed to executor.submit, in order
    \* one call of log_message
    lm_pc,               \* "idle" | "call" | "done"
    lm_args,             \* [log_file, level, message, quiet, summary]
    lm_out,              \* what the call wrote: <<destination, level, message>>
    \* one Timer (utils.py)
    clock,               \* time.perf_counter()
    t_pc,                \* "none" | "plain" (Timer()) | "block" (inside timing_context) | "left"
    start_time,          \* Timer.start_time
    duration,            \* Timer.duration, None until stopped
    t_trace,             \* the calls made on the timer: <<call, clock at the call, value returned>>
    \* one call of ProcessingConfig.validate (config.py)
    v_pc,                \* "idle" | "call" | "returned" | "raised" (ValueError)
    config,              \* the fields of the ProcessingConfig object
    given,               \* the fields as they were when validate was called
    v_out                \* what validate wrote through log_message

flagVars == <<shutdown_requested, main_shutdown, requested, forced>>
poolVars == <<max_workers, job, outcome, nowait, finishSeq>>
dispVars == <<pc, submitted, acInitial, acQueue, cur, delivered, completed,
              successful, failed, errors, foldSeq, stream, summary, notice, reqK,
              reqPc, preDone, subAfterReq>>
runVars  == <<dispatcher, pdf_files, workers, stdout_encodes>>
ocrVars  == <<opc, total_pages, batch_unset, batch_size, text_pages, final_text,
              pages_batch, batch_start, page_num, writes, oob, renders,
              recog_failed, page_img, combined>>
jobVars  == <<jkind, jpc, gen, docx_asked, log_path, cfg_quiet, cfg_summary,
              temp_bound, log_messages, result, calls, direct, console, dirs>>
listVars == <<lpc, dir_names, listing, doc_list, sub_names>>
logVars == <<lm_pc, lm_args, lm_out>>
timerVars == <<clock, t_pc, start_time, duration, t_trace>>
cfgVars == <<v_pc, config, given, v_out>>
unitVars == <<logVars, timerVars, cfgVars>>
vars == <<runVars, flagVars, poolVars, dispVars, ocrVars, jobVars, listVars, unitVars>>

Docs == 1..pdf_files

NoSummary == [emitted |-> FALSE, completed |-> 0, successful |-> 0,
              failed |-> 0, errors |-> <<>>]

\* --------------------------------------------------------------- helpers
Running == {i \in Docs : job[i] = "running"}
Queued  == {i \in Docs : job[i] = "queued"}
\* Variant: the work item submitted last is started first.
Min_Largest(S) == CHOOSE x \in S : \A y \in S : x >= y

\* The work item submitted first among S (documents are numbered in list order).
Min(S) == CHOOSE x \in S : \A y \in S : x <= y
Range(s) == {s[i] : i \in 1..Len(s)}

\* ------------------------------------------------ pdf2ocr/state.py flag
\* Variant: set() toggles the flag.
SetEvent_Toggle(flag) == ~flag

\* threading.Event.set(): the flag becomes set whatever it was.
SetEvent(flag) == TRUE

\* is_shutdown_requested(): shutdown_requested.is_set()
is_shutdown_requested == shutdown_requested

\* bool(threading.Event()), set or not
EventObjectTruth == TRUE

\* The dispatchers of main.py, which installs signal_handler and keeps its own
\* module global.
MainModule == {"main", "main_layout"}

\* The loop body of the dispatcher starts with a shutdown test:
\* process_layout_pdf_only of main.py has none.
HasShutdownTest(d) == d # "main_layout"

\* The flag the dispatcher in use polls: the Event of state.py for the
\* dispatchers of converters/pdf.py, the module global for main.py.
\* converters.py tests the name it imported from state.py,
\* "if shutdown_requested:", which is the threading.Event object itself: an
\* object without __bool__ or __len__ is true.
ShutdownSeen ==
    IF dispatcher = "main" THEN main_shutdown
    ELSE IF dispatcher = "legacy" THEN EventObjectTruth
    ELSE is_shutdown_requested

\* The process is still inside the dispatcher: requests and signals arrive
\* while it runs.
Alive == pc \notin {"returned", "raised", "sysexit", "exited"}

NoteRequest ==
    /\ reqK' = IF reqK = -1 THEN completed ELSE reqK
    /\ reqPc' = IF reqK # -1 THEN reqPc
                 ELSE IF pc \in {"start", "pool", "submit"} THEN "before"
                 ELSE IF pc \in {"loop", "check", "fold"} THEN "loop"
                 ELSE "after"
    /\ requested' = TRUE

\* request_shutdown(): shutdown_requested.set()
request_shutdown ==
    /\ dispatcher \notin MainModule
    /\ Alive
    /\ shutdown_requested' = SetEvent(shutdown_requested)
    /\ NoteRequest
    /\ UNCHANGED <<main_shutdown, forced>>
    /\ UNCHANGED <<unitVars, listVars, runVars, poolVars, ocrVars, jobVars>>
    /\ UNCHANGED <<pc, submitted, acInitial, acQueue, cur, delivered, completed,
                   successful, failed, errors, foldSeq, stream, preDone, summary, notice, subAfterReq>>

\* force_exit(): request_shutdown() and nothing else
force_exit ==
    /\ dispatcher \notin MainModule
    /\ Alive
    /\ shutdown_requested' = SetEvent(shutdown_requested)
    /\ forced' = (forced \/ shutdown_requested)
    /\ NoteRequest
    /\ UNCHANGED main_shutdown
    /\ UNCHANGED <<unitVars, listVars, runVars, poolVars, ocrVars, jobVars>>
    /\ UNCHANGED <<pc, submitted, acInitial, acQueue, cur, delivered, completed,
                   successful, failed, errors, foldSeq, stream, preDone, summary, notice, subAfterReq>>

\* ------------------------------------------- pdf2ocr/main.py signal_handler
\* First SIGINT/SIGTERM: shutdown_requested = True and a warning.
\* Second one: "Force quitting..." and sys.exit(1), which raises SystemExit
\* in the dispatcher thread at its current position.
signal_handler ==
    /\ dispatcher \in MainModule
    /\ Alive
    /\ IF main_shutdown
          THEN /\ notice' = "force"
               /\ forced' = TRUE
               /\ pc' = "sysexit"
               /\ UNCHANGED main_shutdown
          ELSE /\ main_shutdown' = TRUE
               /\ notice' = "shutdown"
               /\ UNCHANGED <<forced, pc>>
    /\ NoteRequest
    /\ UNCHANGED shutdown_requested
    /\ UNCHANGED <<unitVars, listVars, runVars, poolVars, ocrVars, jobVars>>
    /\ UNCHANGED <<submitted, acInitial, acQueue, cur, delivered, completed,
                   successful, failed, errors, foldSeq, stream, preDone, summary, subAfterReq>>

\* ------------------------------------------------------------ the pool
\* Variant: the pool is created one worker too large.
PoolSize_OffByOne(w) == w + 1

\* ProcessPoolExecutor(max_workers=max_workers) with max_workers = config.workers
PoolSize(w) == w

\* The executor starts queued work items in submission order while a worker
\* process is free; it never runs more than max_workers at once.
StartJob ==
    /\ max_workers > 0
    /\ Queued # {}
    /\ Cardinality(Running) < max_workers
    /\ job' = [job EXCEPT ![Min(Queued)] = "running"]
    /\ UNCHANGED <<max_workers, outcome, nowait, finishSeq>>
    /\ UNCHANGED <<unitVars, listVars, runVars, flagVars, dispVars, ocrVars, jobVars>>

\* A running job ends: it returns (True, t, None, logs), returns
\* (False, 0, error, logs), or its result cannot be retrieved ("raise").
\* The future is marked finished; as_completed's waiter, once installed,
\* records it in finishing order.
FinishJob ==
    \E i \in Running, o \in {"ok", "fail", "raise"} :
        /\ job' = [job EXCEPT ![i] = "done"]
        /\ outcome' = [outcome EXCEPT ![i] = o]
        /\ finishSeq' = Append(finishSeq, i)
        /\ acQueue' = IF pc \in {"loop", "check", "fold"}
                         THEN Append(acQueue, i) ELSE acQueue
        /\ UNCHANGED <<max_workers, nowait>>
        /\ UNCHANGED <<unitVars, listVars, runVars, flagVars, ocrVars, jobVars>>
        /\ UNCHANGED <<pc, submitted, acInitial, cur, delivered, completed,
                       successful, failed, errors, foldSeq, stream, preDone, summary, notice,
                       reqK, reqPc, subAfterReq>>

\* Variant: leaving the loop cancels the jobs that have not returned.
ExecutorShutdown_Cancel(js) ==
    [i \in DOMAIN js |-> IF js[i] \in {"queued", "running"} THEN "cancelled" ELSE js[i]]

\* executor.shutdown(wait=...) without cancel_futures: queued and running
\* jobs are left to run.
ExecutorShutdown(js) == js

\* Variant: an empty document list is not noticed.
NoDocuments_Never(n) == FALSE

\* "if not pdf_files": the sorted list of documents is empty.
NoDocuments(n) == n = 0

\* ------------------------------------------- log_message (logging_config.py)
\* A message text, reduced to what log_message looks at: its fixed part, the
\* step it reports, and whether the interpolated part (a file name, the text
\* of an exception, captured tool output) contains "ebook-convert".
Msg(b, a, e) == [body |-> b, about |-> a, ebook |-> e]
NoMsg == Msg("", "", FALSE)

\* "ebook-convert" in message
MentionsEbookConvert(msg) == msg.ebook \/ msg.body \in
    {"Running ebook-convert", "ebook-convert output", "Full ebook-convert error output"}

\* should_print: quiet shows errors only; summary mode shows errors,
\* warnings, version, language info and the summary; normal mode shows
\* everything that does not contain "ebook-convert".
ShouldPrint(level, msg, quiet, summ) ==
    IF quiet THEN level = "ERROR"
    ELSE IF summ
            THEN \/ level \in {"ERROR", "WARNING"}
                 \/ msg.body \in {"PDF2OCR v", "Using Tesseract language model:",
                                  "Processing Summary:"}
            ELSE ~MentionsEbookConvert(msg)

\* print(..., file=sys.stderr) for errors and warnings, print(...) otherwise
StreamOf(level) == IF level \in {"ERROR", "WARNING"} THEN "stderr" ELSE "stdout"

\* log_message(log_file, level, message, quiet, summary): what it writes, in
\* order: the line in the log file when there is one, then the console line.
log_message(log_file, level, msg, quiet, summ) ==
    (IF log_file THEN << <<"file", level, msg>> >> ELSE <<>>)
    \o (IF ShouldPrint(level, msg, quiet, summ)
           THEN << <<StreamOf(level), level, msg>> >> ELSE <<>>)

RECURSIVE Emit(_)
\* What a sequence of log_message calls on the dispatcher's logger writes.
Emit(cs) ==
    IF cs = <<>> THEN <<>>
    ELSE log_message(log_path, cs[1][1], cs[1][2], cs[1][3], cs[1][4]) \o Emit(Tail(cs))

\* A call log_message(log_file, level, message, quiet=..., summary=...).
LogMessage ==
    /\ lm_pc = "call"
    /\ lm_out' = log_message(lm_args.log_file, lm_args.level, lm_args.message,
                             lm_args.quiet, lm_args.summary)
    /\ lm_pc' = "done"
    /\ UNCHANGED <<lm_args, timerVars, cfgVars>>
    /\ UNCHANGED <<listVars, runVars, flagVars, poolVars, dispVars, ocrVars, jobVars>>

\* ------------------------------------------------- Timer (utils.py)
\* Python's None for a duration that has not been set.
None == -1

\* Variant: "if not self.duration", which also takes 0.0 for unset.
IsUnset_Falsy(d) == d = None \/ d = 0

\* self.duration is None
IsUnset(d) == d = None

\* time.perf_counter() advances.
Tick ==
    /\ clock < MaxClock
    /\ clock' = clock + 1
    /\ UNCHANGED <<t_pc, start_time, duration, t_trace, logVars, cfgVars>>
    /\ UNCHANGED <<listVars, runVars, flagVars, poolVars, dispVars, ocrVars, jobVars>>

\* Timer(): start_time = time.perf_counter(); duration = None
Timer(where) ==
    /\ t_pc = "none"
    /\ t_pc' = where
    /\ start_time' = clock
    /\ duration' = None
    /\ UNCHANGED <<clock, t_trace, logVars, cfgVars>>
    /\ UNCHANGED <<listVars, runVars, flagVars, poolVars, dispVars, ocrVars, jobVars>>

\* A Timer constructed on its own.
TimerNew == t_pc = "none" /\ Timer("plain")

\* with timing_context(...) as timer: the timer is constructed and yielded.
ContextEnter == t_pc = "none" /\ Timer("block")

\* Timer.stop(): sets the duration when it is unset, returns it.
stop(call) ==
    /\ duration' = IF IsUnset(duration) THEN clock - start_time ELSE duration
    /\ t_trace' = Append(t_trace, <<call, clock, duration'>>)
    /\ UNCHANGED <<clock, start_time, logVars, cfgVars>>
    /\ UNCHANGED <<listVars, runVars, flagVars, poolVars, dispVars, ocrVars, jobVars>>

\* A call timer.stop() by the code that holds the timer.
TimerStop ==
    /\ t_pc \in {"plain", "block", "left"}
    /\ Len(t_trace) < MaxCalls
    /\ stop("stop")
    /\ UNCHANGED t_pc

\* Timer.__call__(): the stored duration when stopped, else the time elapsed.
TimerRead ==
    /\ t_pc \in {"plain", "block", "left"}
    /\ Len(t_trace) < MaxCalls
    /\ t_trace' = Append(t_trace,
                     <<"read", clock,
                       IF ~IsUnset(duration) THEN duration ELSE clock - start_time>>)
    /\ UNCHANGED <<clock, t_pc, start_time, duration, logVars, cfgVars>>
    /\ UNCHANGED <<listVars, runVars, flagVars, poolVars, dispVars, ocrVars, jobVars>>

\* The block of timing_context ends, normally or by an exception: the finally
\* clause calls timer.stop().
ContextExit ==
    /\ t_pc = "block"
    /\ \E how \in {"exit", "exit_raising"} : stop(how)
    /\ t_pc' = "left"

\* --------------------------------- ProcessingConfig.validate (config.py)
\* any([self.generate_docx, self.generate_pdf, self.generate_epub,
\*      self.generate_html])
AnyFormat(c) ==
    c.generate_docx \/ c.generate_pdf \/ c.generate_epub \/ c.generate_html

\* "Enable DOCX automatically if EPUB is requested"
DocxForEpub(c) ==
    IF c.generate_epub /\ ~c.generate_docx
       THEN [c EXCEPT !.generate_docx = TRUE] ELSE c

\* Variant: layout preservation keeps the HTML output.
LayoutOnly_KeepHtml(c) ==
    IF ~c.preserve_layout THEN c
    ELSE [c EXCEPT !.generate_docx = FALSE, !.generate_epub = FALSE,
                   !.generate_pdf = TRUE]

\* if self.preserve_layout: the other formats are switched off when any of
\* them is on, and PDF is switched on when it is off.
LayoutOnly(c) ==
    IF ~c.preserve_layout THEN c
    ELSE [c EXCEPT !.generate_docx = FALSE, !.generate_epub = FALSE,
                   !.generate_html = FALSE, !.generate_pdf = TRUE]

\* The log_message(None, ...) calls of validate, in order, on the fields c it
\* was called with.
ValidateCalls(c) ==
    (IF c.generate_epub /\ ~c.generate_docx
        THEN << <<"WARNING", Msg("EPUB generation requires DOCX format", "", FALSE),
                  c.quiet, FALSE>> >>
        ELSE <<>>)
    \o (IF c.preserve_layout /\ (DocxForEpub(c).generate_docx \/ c.generate_epub
                                   \/ c.generate_html)
           THEN << <<"WARNING", Msg("Layout preservation mode only supports PDF output",
                                    "", FALSE), c.quiet, FALSE>> >>
           ELSE <<>>)
    \o (IF c.preserve_layout /\ ~c.generate_pdf
           THEN << <<"INFO", Msg("PDF output automatically enabled", "", FALSE),
                     c.quiet, FALSE>> >>
           ELSE <<>>)

RECURSIVE EmitNoFile(_)
\* What a sequence of log_message(None, ...) calls writes.
EmitNoFile(cs) ==
    IF cs = <<>> THEN <<>>
    ELSE log_message(FALSE, cs[1][1], cs[1][2], cs[1][3], cs[1][4])
         \o EmitNoFile(Tail(cs))

\* config.validate(): ValueError when no format is selected, before anything
\* is changed; then the DOCX and the layout adjustments; then ValueError for
\* a source directory that is not found (paths under /test/ are not looked
\* up) and for a dpi that is not positive, with the adjustments already made.
validate ==
    /\ v_pc = "call"
    /\ IF ~AnyFormat(config)
          THEN /\ v_pc' = "raised"
               /\ UNCHANGED <<config, v_out>>
          ELSE /\ config' = LayoutOnly(DocxForEpub(config))
               /\ v_out' = v_out \o EmitNoFile(ValidateCalls(config))
               /\ v_pc' = IF ~config.source_found \/ config.dpi <= 0
                              THEN "raised" ELSE "returned"
    /\ UNCHANGED <<given, logVars, timerVars>>
    /\ UNCHANGED <<listVars, runVars, flagVars, poolVars, dispVars, ocrVars, jobVars>>

\* ------------------------------------------------------- the dispatcher
\* process_pdfs_with_ocr / process_layout_pdf_only up to the pool: the list
\* of documents is built; an empty list logs "No PDF files found!" and returns.
\* config.validate, os.makedirs and os.listdir run inside the outer try: when
\* one of them raises, the outer handler logs the error and re-raises it.
Begin ==
    /\ pc = "start"
    /\ \/ /\ pc' = "raised"
          /\ UNCHANGED notice
       \/ IF NoDocuments(pdf_files)
             THEN /\ pc' = "returned"
                  /\ notice' = "nofiles"
             ELSE /\ pc' = "pool"
                  /\ UNCHANGED notice
    /\ UNCHANGED <<unitVars, listVars, runVars, flagVars, poolVars, ocrVars, jobVars>>
    /\ UNCHANGED <<submitted, acInitial, acQueue, cur, delivered, completed,
                   successful, failed, errors, foldSeq, stream, preDone, summary, reqK, reqPc, subAfterReq>>

\* with futures.ProcessPoolExecutor(max_workers=max_workers): a size below 1
\* raises ValueError, which the outer handler logs and re-raises.
CreatePool ==
    /\ pc = "pool"
    /\ IF PoolSize(workers) < 1
          THEN /\ pc' = "raised"
               /\ UNCHANGED max_workers
          ELSE /\ max_workers' = PoolSize(workers)
               /\ pc' = "submit"
    /\ UNCHANGED <<job, outcome, nowait, finishSeq>>
    /\ UNCHANGED <<unitVars, listVars, runVars, flagVars, ocrVars, jobVars>>
    /\ UNCHANGED <<submitted, acInitial, acQueue, cur, delivered, completed,
                   successful, failed, errors, foldSeq, stream, preDone, summary, notice, reqK, reqPc,
                   subAfterReq>>

\* Variant: the last filename is not submitted.
SubmitDone_SkipLast(s, n) == s >= n - 1

\* The dict comprehension has gone through every filename of pdf_files.
SubmitDone(s, n) == s = n

\* executor.submit(process_single_pdf, filename, config) for the next filename
Submit ==
    /\ pc = "submit"
    /\ ~SubmitDone(submitted, pdf_files)
    /\ submitted' = submitted + 1
    /\ job' = [job EXCEPT ![submitted + 1] = "queued"]
    /\ subAfterReq' = (subAfterReq \/ ShutdownSeen)
    /\ UNCHANGED <<max_workers, outcome, nowait, finishSeq>>
    /\ UNCHANGED <<unitVars, listVars, runVars, flagVars, ocrVars, jobVars>>
    /\ UNCHANGED <<pc, acInitial, acQueue, cur, delivered, completed,
                   successful, failed, errors, foldSeq, stream, preDone, summary, notice, reqK, reqPc>>

\* Variant: as_completed forgets the futures that finished before it started.
AlreadyFinished_None(js) == {}

\* as_completed: finished = set(f for f in fs if f._state in [FINISHED, ...]),
\* the futures that are already finished when the generator starts.
AlreadyFinished(js) == {i \in DOMAIN js : js[i] = "done"}

\* for future in futures.as_completed(future_to_file): the generator starts,
\* takes the set of futures that are already finished and installs its waiter.
AsCompletedStart ==
    /\ pc = "submit"
    /\ SubmitDone(submitted, pdf_files)
    /\ acInitial' = AlreadyFinished(job)
    /\ preDone' = {i \in Docs : job[i] = "done"}
    /\ acQueue' = <<>>
    /\ pc' = "loop"
    /\ UNCHANGED <<unitVars, listVars, runVars, flagVars, poolVars, ocrVars, jobVars>>
    /\ UNCHANGED <<submitted, cur, delivered, completed, successful, failed,
                   errors, foldSeq, stream, summary, notice, reqK, reqPc, subAfterReq>>

\* Variant: the most recently finished future is yielded first.
NextYield_Latest(initial, queue) ==
    IF initial # {} THEN initial
    ELSE IF queue # <<>> THEN {queue[Len(queue)]} ELSE {}

\* What as_completed can yield next: first the futures that were finished when
\* it started, as a set (no order among them), then the others in the order
\* they finish.
NextYield(initial, queue) ==
    IF initial # {} THEN initial
    ELSE IF queue # <<>> THEN {Head(queue)} ELSE {}

\* as_completed yields a finished future to the loop.
Deliver ==
    /\ pc = "loop"
    /\ \E i \in NextYield(acInitial, acQueue) :
          /\ cur' = i
          /\ delivered' = delivered \cup {i}
          /\ acInitial' = acInitial \ {i}
          /\ acQueue' = IF acInitial = {} THEN Tail(acQueue) ELSE acQueue
    /\ pc' = "check"
    /\ UNCHANGED <<unitVars, listVars, runVars, flagVars, poolVars, ocrVars, jobVars>>
    /\ UNCHANGED <<submitted, completed, successful, failed, errors, foldSeq, stream, preDone,
                   summary, notice, reqK, reqPc, subAfterReq>>

\* as_completed is exhausted: every future has been yielded.
LoopEnd ==
    /\ pc = "loop"
    /\ Cardinality(delivered) = submitted
    /\ pc' = "exit_pool"
    /\ UNCHANGED <<unitVars, listVars, runVars, flagVars, poolVars, ocrVars, jobVars>>
    /\ UNCHANGED <<submitted, acInitial, acQueue, cur, delivered, completed,
                   successful, failed, errors, foldSeq, stream, preDone, summary, notice, reqK, reqPc,
                   subAfterReq>>

\* Variant: the loop never looks at the flag.
ShouldBreak_Never(flag) == FALSE

\* if is_shutdown_requested(): ... break   (main.py: if shutdown_requested:)
ShouldBreak(flag) == flag

\* The first statement of the loop body. On a request the loop is left with
\* the yielded future unread; main.py also calls executor.shutdown(wait=False).
CheckShutdown ==
    /\ pc = "check"
    /\ IF HasShutdownTest(dispatcher) /\ ShouldBreak(ShutdownSeen)
          THEN /\ pc' = "exit_pool"
               /\ cur' = 0
               /\ job' = ExecutorShutdown(job)
               /\ nowait' = (nowait \/ dispatcher \in {"main", "legacy"})
               /\ notice' = IF dispatcher \in {"main", "legacy"} THEN notice
                             ELSE "shutdown"
          ELSE /\ pc' = "fold"
               /\ UNCHANGED <<cur, job, nowait, notice>>
    /\ UNCHANGED <<max_workers, outcome, finishSeq>>
    /\ UNCHANGED <<unitVars, listVars, runVars, flagVars, ocrVars, jobVars>>
    /\ UNCHANGED <<submitted, acInitial, acQueue, delivered, completed,
                   successful, failed, errors, foldSeq, stream, preDone, summary, reqK, reqPc, subAfterReq>>

\* Variant: a result that could not be retrieved is not counted as a failure.
IsFailure_IgnoreRaise(o) == o = "fail"

\* The document failed: its result has success = False (the else branch), or
\* future.result() raised (the except branch).
IsFailure(o) == o # "ok"

\* Variant: a result that could not be retrieved is reported with the job's
\* own text.
ErrorText_JobText(i, o) ==
    IF o \in {"raise", "fail"} THEN <<"Error in", i>> ELSE <<>>

\* The error recorded for a failed document. The job builds
\* f"Error in {filename} during ..." and returns it; for a result that could
\* not be retrieved the dispatcher builds f"Error processing {filename}: ...".
ErrorText(i, o) ==
    IF o = "raise" THEN <<"Error processing", i>>
    ELSE IF o = "fail" THEN <<"Error in", i>> ELSE <<>>

\* Variant: the failure is counted but not listed.
RecordError_Skip(errs, i, e) == errs

\* if error: errors.append((filename, error)) and, in the except branch,
\* errors.append((filename, error_msg))
RecordError(errs, i, e) == IF e # <<>> THEN Append(errs, <<i, e>>) ELSE errs

\* The log records a job returns with its result, by outcome: the records of
\* the stages it went through, closed by an ERROR record when it failed.
ResultLogs(o) ==
    IF o = "ok" THEN << <<"INFO", "Text extracted">>, <<"INFO", "created">> >>
    ELSE IF o = "fail" THEN << <<"INFO", "Text extracted">>, <<"ERROR", "Error in">> >>
    ELSE <<>>

\* Variant: the header is logged after the records of the job.
Block_HeaderLast(d, i, o) ==
    IF o = "raise" THEN << <<i, "ERROR", "Error processing">> >>
    ELSE [k \in 1..Len(ResultLogs(o)) |->
             <<i, ResultLogs(o)[k][1], ResultLogs(o)[k][2]>>]
         \o << <<i, "INFO", "Processing:">> >>
         \o << IF o = "ok" THEN <<i, "INFO", "Completed successfully">>
                            ELSE <<i, "ERROR", "Failed:">> >>
         \o (IF d \in {"main", "main_layout", "legacy"}
                THEN << <<i, "INFO", "">> >> ELSE <<>>)

\* What the loop body logs for the future of document i: the header
\* "[n/N] Processing: {filename}", every record of the result at its own
\* level, then the success or the failure line (main.py adds an empty line);
\* when result() raises, only "Error processing {filename}: ...".
Block(d, i, o) ==
    IF o = "raise" THEN << <<i, "ERROR", "Error processing">> >>
    ELSE << <<i, "INFO", "Processing:">> >>
         \o [k \in 1..Len(ResultLogs(o)) |->
                <<i, ResultLogs(o)[k][1], ResultLogs(o)[k][2]>>]
         \o << IF o = "ok" THEN <<i, "INFO", "Completed successfully">>
                            ELSE <<i, "ERROR", "Failed:">> >>
         \o (IF d \in {"main", "main_layout", "legacy"}
                THEN << <<i, "INFO", "">> >> ELSE <<>>)

\* The log_message calls of the loop body, <<level, message, quiet, summary>>:
\* the lines of Block with the flags the dispatcher passes. converters/pdf.py
\* passes quiet = config.quiet or config.summary for the header, the job's
\* records and the success line, quiet = config.quiet for its own error
\* lines, and summary = config.summary; main.py passes
\* quiet = not should_show_message() and, for its error lines, quiet = False
\* (so does converters.py); its layout dispatcher passes quiet = config.quiet.
BlockCalls(d, i, o, q, s) ==
    [k \in 1..Len(Block(d, i, o)) |->
        LET line == Block(d, i, o)[k]
            own_error == line[3] \in {"Failed:", "Error processing"}
        IN  << line[2], Msg(line[3], "", FALSE),
               IF d = "main_layout" THEN q
               ELSE IF own_error THEN (IF d \in {"main", "legacy"} THEN FALSE ELSE q)
               ELSE (q \/ s),
               IF d \in {"pdf", "layout"} THEN s ELSE FALSE >>]

\* log_message(logger, "INFO", "\n".join(summary), quiet=config.quiet); the
\* layout dispatcher also passes summary=config.summary.
SummaryCalls(d, q, s) ==
    << <<"INFO", Msg("Processing Summary:", "", FALSE), q,
         IF d = "layout" THEN s ELSE FALSE>> >>

SuccessLine(lines) ==
    {k \in 1..Len(lines) : lines[k][3] = "Completed successfully"}

\* print(console_message) raises UnicodeEncodeError when sys.stdout cannot
\* encode the text: of the lines of the loop body only the success line
\* ("  \u2713 Completed successfully ...") is not plain ASCII, and it goes to
\* sys.stdout when it is shown (sys.stderr, where the error lines go, escapes
\* what it cannot encode).
PrintRaises(d, i, o, q, s) ==
    /\ ~stdout_encodes
    /\ \E k \in SuccessLine(Block(d, i, o)) :
          LET c == BlockCalls(d, i, o, q, s)[k]
          IN  ShouldPrint(c[1], c[2], c[3], c[4])

\* The lines of the block up to the success line
UpToSuccess(lines) == SubSeq(lines, 1, Min(SuccessLine(lines)))

\* What log_message has written when its print raises: the line in the log
\* file, which it writes first.
FileOnly(c) == IF log_path THEN << <<"file", c[1], c[2]>> >> ELSE <<>>

\* The rest of the loop body: completed += 1, future.result(), then
\* successful += 1, or failed += 1 with (filename, error) appended, or, when
\* result() raises, failed += 1 with a synthesized error appended. The except
\* branch also takes an exception of the statements after successful += 1:
\* when the print of the success line raises, failed += 1 and the
\* synthesized error follow.
Fold ==
    /\ pc = "fold"
    /\ LET o == outcome[cur]
           lines == Block(dispatcher, cur, o)
           cs == BlockCalls(dispatcher, cur, o, cfg_quiet, cfg_summary)
           raised == PrintRaises(dispatcher, cur, o, cfg_quiet, cfg_summary)
           k == Len(UpToSuccess(lines))
       IN  /\ completed' = completed + 1
           /\ successful' = IF IsFailure(o) THEN successful ELSE successful + 1
           /\ failed' = IF IsFailure(o) \/ raised THEN failed + 1 ELSE failed
           /\ errors' = IF IsFailure(o)
                           THEN RecordError(errors, cur, ErrorText(cur, o))
                           ELSE IF raised
                                   THEN RecordError(errors, cur, ErrorText(cur, "raise"))
                                   ELSE errors
           /\ foldSeq' = Append(foldSeq, cur)
           /\ stream' = IF raised
                           THEN stream \o UpToSuccess(lines)
                                       \o Block(dispatcher, cur, "raise")
                           ELSE stream \o lines
           /\ console' = IF raised
                            THEN console \o Emit(SubSeq(cs, 1, k - 1)) \o FileOnly(cs[k])
                                         \o Emit(BlockCalls(dispatcher, cur, "raise",
                                                             cfg_quiet, cfg_summary))
                            ELSE console \o Emit(cs)
    /\ cur' = 0
    /\ pc' = "loop"
    /\ UNCHANGED <<unitVars, listVars, runVars, flagVars, poolVars, ocrVars>>
    /\ UNCHANGED <<jkind, jpc, gen, docx_asked, log_path, cfg_quiet, cfg_summary,
                   temp_bound, log_messages, result, calls, direct, dirs>>
    /\ UNCHANGED <<submitted, acInitial, acQueue, delivered, summary, notice,
                   reqK, reqPc, preDone, subAfterReq>>

\* Leaving the with-block of the executor: shutdown(wait=True) joins the pool,
\* so every submitted job has ended; after an earlier shutdown(wait=False)
\* there is nothing left to join and the block is left at once.
ExitPool ==
    /\ pc = "exit_pool"
    /\ nowait \/ \A i \in Docs : job[i] = "done"
    /\ pc' = "summary"
    /\ UNCHANGED <<unitVars, listVars, runVars, flagVars, poolVars, ocrVars, jobVars>>
    /\ UNCHANGED <<submitted, acInitial, acQueue, cur, delivered, completed,
                   successful, failed, errors, foldSeq, stream, preDone, summary, notice, reqK, reqPc,
                   subAfterReq>>

\* After the pool. converters/pdf.py: the summary block is built from the
\* counters and logged. main.py: if shutdown_requested, "Processing
\* interrupted by user." is logged and the function returns; else the summary
\* (converters.py has the same test, on the name imported from state.py; the
\* layout dispatcher of main.py has none).
Summarize ==
    /\ pc = "summary"
    /\ IF dispatcher \in {"main", "legacy"} /\ ShutdownSeen
          THEN /\ notice' = "interrupted"
               /\ UNCHANGED <<summary, console>>
          ELSE /\ summary' = [emitted |-> TRUE, completed |-> completed,
                              successful |-> successful, failed |-> failed,
                              errors |-> errors]
               /\ console' = console \o Emit(SummaryCalls(dispatcher, cfg_quiet,
                                                           cfg_summary))
               /\ UNCHANGED notice
    /\ pc' = "returned"
    /\ UNCHANGED <<unitVars, listVars, runVars, flagVars, poolVars, ocrVars>>
    /\ UNCHANGED <<jkind, jpc, gen, docx_asked, log_path, cfg_quiet, cfg_summary,
                   temp_bound, log_messages, result, calls, direct, dirs>>
    /\ UNCHANGED <<submitted, acInitial, acQueue, cur, delivered, completed,
                   successful, failed, errors, foldSeq, stream, preDone, reqK, reqPc, subAfterReq>>

\* SystemExit from the signal handler unwinds the dispatcher: it is not an
\* Exception, so no handler catches it; the with-block of the executor, when
\* one is open, is left as in ExitPool.
SysExitUnwind ==
    /\ pc = "sysexit"
    /\ max_workers = 0 \/ nowait \/ \A i \in Docs : job[i] \in {"none", "done"}
    /\ pc' = "exited"
    /\ UNCHANGED <<unitVars, listVars, runVars, flagVars, poolVars, ocrVars, jobVars>>
    /\ UNCHANGED <<submitted, acInitial, acQueue, cur, delivered, completed,
                   successful, failed, errors, foldSeq, stream, preDone, summary, notice, reqK, reqPc,
                   subAfterReq>>

\* ------------------------------------------ extract_text_from_pdf (ocr.py)
\* Variant: the images come back last page first.
convert_from_path_Reversed(first, last, tp) ==
    LET lo == IF first < 1 THEN 1 ELSE first
        hi == IF last = 0 \/ last > tp THEN tp ELSE last
    IN  IF lo > hi THEN <<>> ELSE [k \in 1..(hi - lo + 1) |-> hi - k + 1]

\* convert_from_path(pdf_path, first_page=first, last_page=last): the images
\* of pages first..last of the document, in page order; first = last = 0
\* stands for the call without a range, which renders every page.
convert_from_path(first, last, tp) ==
    LET lo == IF first < 1 THEN 1 ELSE first
        hi == IF last = 0 \/ last > tp THEN tp ELSE last
    IN  IF lo > hi THEN <<>> ELSE [k \in 1..(hi - lo + 1) |-> lo + k - 1]

\* extract_text_from_image(page_img, ...): the text of the page the image shows
extract_text_from_image(img) == img

\* Variant: the last batch is not clamped to the page count.
BatchEnd_NoClamp(bs, B, tp) == bs + B - 1

\* batch_end = min(batch_start + batch_size - 1, total_pages)
BatchEnd(bs, B, tp) == IF bs + B - 1 < tp THEN bs + B - 1 ELSE tp

\* Variant: enumerate without start, every batch stored from slot 0.
FirstIndex_Zero(bs) == 0

\* enumerate(pages_batch, start=batch_start - 1): index of the batch's first page
FirstIndex(bs) == bs - 1

\* Variant: the range includes its stop value.
InRange_Inclusive(bs, B, tp) == IF B > 0 THEN bs <= tp + 1 ELSE bs >= tp + 1

\* range(1, total_pages + 1, batch_size) still has the value bs
InRange(bs, B, tp) == IF B > 0 THEN bs < tp + 1 ELSE bs > tp + 1

\* The rendered images the function still references: those of the list
\* pages_batch and the one bound to the loop variable page_img.
Held == Range(pages_batch) \cup (IF page_img = 0 THEN {} ELSE {page_img})

\* Index (0-based) of the first image of the batch being processed
BatchBase == IF batch_unset THEN 0 ELSE FirstIndex(batch_start)

\* Variant: the call without a batch size asks for the first page only.
UnsetRange_FirstPage == <<1, 1>>

\* convert_from_path(pdf_path, dpi=400, use_pdftocairo=True): the call made
\* when batch_size is None passes no first_page / last_page.
UnsetRange == <<0, 0>>

\* The page count has been read and text_pages pre-allocated. Without a batch
\* size every page is rendered by one call; with one, the batch loop starts.
\* range() with step 0 raises ValueError, and so does a failing render call;
\* both leave as OCRError.
OcrBegin ==
    /\ opc = "start"
    /\ IF batch_unset
          THEN \/ /\ pages_batch' = convert_from_path(UnsetRange[1], UnsetRange[2],
                                                      total_pages)
                  /\ renders' = Append(renders, UnsetRange)
                  /\ page_num' = 0
                  /\ opc' = "pages"
                  /\ UNCHANGED batch_start
               \/ /\ opc' = "raised"
                  /\ renders' = Append(renders, UnsetRange)
                  /\ UNCHANGED <<pages_batch, page_num, batch_start>>
          ELSE /\ IF batch_size = 0
                     THEN opc' = "raised" /\ UNCHANGED batch_start
                     ELSE opc' = "batch" /\ batch_start' = 1
               /\ UNCHANGED <<pages_batch, renders, page_num>>
    /\ UNCHANGED <<total_pages, batch_unset, batch_size, text_pages, final_text,
                   writes, oob, recog_failed, page_img, combined>>
    /\ UNCHANGED <<unitVars, listVars, runVars, flagVars, poolVars, dispVars, jobVars>>

\* Head of the batch loop: the next range is rendered, or the loop ends.
OcrBatch ==
    /\ opc = "batch"
    /\ IF InRange(batch_start, batch_size, total_pages)
          THEN LET batch_end == BatchEnd(batch_start, batch_size, total_pages)
               IN  /\ renders' = Append(renders, <<batch_start, batch_end>>)
                   /\ \/ /\ pages_batch' = convert_from_path(batch_start, batch_end,
                                                             total_pages)
                         /\ page_num' = FirstIndex(batch_start)
                         /\ opc' = "pages"
                      \/ /\ opc' = "raised"
                         /\ UNCHANGED <<pages_batch, page_num>>
          ELSE /\ opc' = "ret"
               /\ UNCHANGED <<renders, pages_batch, page_num>>
    /\ UNCHANGED <<total_pages, batch_unset, batch_size, text_pages, final_text,
                   batch_start, writes, oob, recog_failed, page_img, combined>>
    /\ UNCHANGED <<unitVars, listVars, runVars, flagVars, poolVars, dispVars, jobVars>>

\* Variant: a recognition failure is swallowed and the page loop goes on.
RecognitionFailed_Retry == "pages"

\* except Exception as e: raise OCRError(...): a failure recognizing a page
\* ends extract_text_from_pdf.
RecognitionFailed == "raised"

\* One iteration of the page loop: the next image is recognized and its text
\* stored at text_pages[page_num]; recognition may raise, and a store past the
\* end of the list raises IndexError. After the last image the batch is
\* released (del pages_batch); the loop variable page_img stays bound to the
\* last image it was given.
OcrPage ==
    /\ opc = "pages"
    /\ LET k == page_num - BatchBase + 1
       IN  IF k > Len(pages_batch)
              THEN /\ pages_batch' = <<>>
                   /\ IF batch_unset
                         THEN opc' = "ret" /\ UNCHANGED batch_start
                         ELSE /\ opc' = "batch"
                              /\ batch_start' = batch_start + batch_size
                   /\ UNCHANGED <<text_pages, final_text, page_num, writes, oob,
                                  recog_failed, page_img>>
              ELSE \/ /\ page_num + 1 \in 1..total_pages
                      /\ page_img' = pages_batch[k]
                      /\ text_pages' = [text_pages EXCEPT ![page_num + 1] =
                                          extract_text_from_image(pages_batch[k])]
                      /\ writes' = [writes EXCEPT ![page_num + 1] = @ + 1]
                      /\ final_text' = Append(final_text,
                                          extract_text_from_image(pages_batch[k]))
                      /\ page_num' = page_num + 1
                      /\ UNCHANGED <<opc, pages_batch, batch_start, oob,
                                     recog_failed>>
                   \/ /\ page_num + 1 \notin 1..total_pages
                      /\ page_img' = pages_batch[k]
                      /\ oob' = TRUE
                      /\ opc' = "raised"
                      /\ UNCHANGED <<text_pages, final_text, page_num, writes,
                                     pages_batch, batch_start, recog_failed>>
                   \/ /\ opc' = RecognitionFailed
                      /\ page_img' = pages_batch[k]
                      /\ recog_failed' = pages_batch[k]
                      /\ UNCHANGED <<text_pages, final_text, page_num, writes,
                                     pages_batch, batch_start, oob>>
    /\ UNCHANGED <<total_pages, batch_unset, batch_size, renders, combined>>
    /\ UNCHANGED <<unitVars, listVars, runVars, flagVars, poolVars, dispVars, jobVars>>

RECURSIVE Join(_)
\* "\n\n".join(texts): the texts in list order with a separator (written 0)
\* between neighbours.
Join(texts) ==
    IF Len(texts) <= 1 THEN texts
    ELSE <<Head(texts), 0>> \o Join(Tail(texts))

\* return "\n\n".join(final_text), text_pages, ...: the function returns and
\* its frame, page_img included, is gone.
OcrReturn ==
    /\ opc = "ret"
    /\ combined' = Join(final_text)
    /\ page_img' = 0
    /\ opc' = "done"
    /\ UNCHANGED <<total_pages, batch_unset, batch_size, text_pages, final_text,
                   pages_batch, batch_start, page_num, writes, oob, renders,
                   recog_failed>>
    /\ UNCHANGED <<unitVars, listVars, runVars, flagVars, poolVars, dispVars, jobVars>>

\* --------------------------- the per-document jobs (converters/pdf.py)
Formats == {"pdf", "docx", "html", "epub"}

\* Variant: EPUB without DOCX is left as configured.
EnableDocx_Never(g) == g

\* if config.generate_epub and not config.generate_docx:
\*     config.generate_docx = True
EnableDocx(g) == [g EXCEPT !["docx"] = g["docx"] \/ g["epub"]]

JobResult(k, e, logs) == [kind |-> k, error |-> e, logs |-> logs]
NoResult == JobResult("none", NoMsg, <<>>)

\* The dispatcher's configuration step before the jobs are submitted:
\* config.validate rejects a configuration without any output format.
Validate ==
    /\ jpc = "config"
    /\ gen' = IF jkind = "pdf" THEN EnableDocx(gen) ELSE gen
    /\ jpc' = IF \E f \in Formats : gen[f] THEN "dirs" ELSE "rejected"
    /\ UNCHANGED <<jkind, docx_asked, log_path, cfg_quiet, cfg_summary,
                   temp_bound, log_messages, result, calls, direct, console, dirs>>
    /\ UNCHANGED <<unitVars, listVars, runVars, flagVars, poolVars, dispVars, ocrVars>>

\* Variant: the DOCX directory is left to the job.
NeededDirs_NoDocx(kind, g) ==
    IF kind = "layout" THEN <<"pdf">>
    ELSE SelectSeq(<<"pdf", "html", "epub">>, LAMBDA f : g[f])

\* The directories the dispatcher creates, in the order of its os.makedirs
\* calls: process_pdfs_with_ocr has one guarded call per enabled format
\* (pdf_dir, docx_dir, html_dir, epub_dir), process_layout_pdf_only creates
\* pdf_dir.
NeededDirs(kind, g) ==
    IF kind = "layout" THEN <<"pdf">>
    ELSE SelectSeq(<<"pdf", "docx", "html", "epub">>, LAMBDA f : g[f])

\* "Create output directories": the dispatcher's os.makedirs(..., exist_ok=True)
\* calls, after config.validate and before the directory is listed and the
\* jobs are submitted. A call that raises ends the dispatcher (the outer
\* handler re-raises) with the earlier directories made.
MakeDirs ==
    /\ jpc = "dirs"
    /\ LET need == NeededDirs(jkind, gen)
       IN  \E k \in 0..Len(need) :
              /\ dirs' = dirs \o [j \in 1..k |-> <<"dispatcher", need[j]>>]
              /\ jpc' = IF k = Len(need) THEN "logger" ELSE "dirs_failed"
    /\ UNCHANGED <<jkind, gen, docx_asked, log_path, cfg_quiet, cfg_summary,
                   temp_bound, log_messages, result, calls, direct, console>>
    /\ UNCHANGED <<unitVars, listVars, runVars, flagVars, poolVars, dispVars, ocrVars>>

\* logger = setup_logging(config.log_path, config.quiet, is_worker=True), the
\* first statement of both jobs, before their try: without a log path it
\* returns None; with one, it calls os.makedirs on the directory of the log
\* file and opens the file, and either may raise.
JobLogger ==
    /\ jpc = "logger"
    /\ \/ jpc' = "paths"
       \/ log_path /\ jpc' = "raised"
    /\ dirs' = IF log_path THEN Append(dirs, <<"job", "log">>) ELSE dirs
    /\ result' = IF jpc' = "raised"
                    THEN JobResult("raise", Msg("OSError", "logger", FALSE), <<>>)
                    ELSE result
    /\ UNCHANGED <<jkind, gen, docx_asked, log_path, cfg_quiet, cfg_summary,
                   temp_bound, log_messages, calls, direct, console>>
    /\ UNCHANGED <<unitVars, listVars, runVars, flagVars, poolVars, dispVars, ocrVars>>

\* except Exception as e: the handler of the job. error_msg is built, appended
\* to log_messages as an ERROR record and returned in a failure result. The
\* layout job first looks at temp_pdf_path: when the failure came before
\* that local was assigned the handler itself raises (UnboundLocalError), and
\* os.remove of an existing temporary file may raise.
Fail(step) ==
    \E m \in BOOLEAN :
        LET error_msg == Msg("Error in", step, m)
            logs == Append(log_messages, <<"ERROR", error_msg>>)
        IN  /\ log_messages' = logs
            /\ IF jkind = "layout" /\ ~temp_bound
                  THEN /\ jpc' = "raised"
                       /\ result' = JobResult("raise",
                                       Msg("UnboundLocalError", step, FALSE), <<>>)
                  ELSE \/ /\ jpc' = "returned"
                          /\ result' = JobResult("fail", error_msg, logs)
                       \/ /\ jkind = "layout" /\ step \in {"merge", "compress"}
                          /\ jpc' = "raised"
                          /\ result' = JobResult("raise",
                                          Msg("OSError", "cleanup", m), <<>>)

\* pdf_path, base_name, out_path, temp_pdf_path: the first statements of the
\* try. process_single_pdf then calls extract_text_from_pdf.
JobPaths ==
    /\ jpc = "paths"
    /\ \/ /\ temp_bound' = TRUE
          /\ jpc' = IF jkind = "pdf" THEN "extract" ELSE "count"
          /\ opc' = IF jkind = "pdf" THEN "start" ELSE opc
          /\ UNCHANGED <<log_messages, result>>
       \/ /\ Fail("paths")
          /\ UNCHANGED <<temp_bound, opc>>
    /\ UNCHANGED <<jkind, gen, docx_asked, log_path, cfg_quiet, cfg_summary,
                   calls, direct, console, dirs>>
    /\ UNCHANGED <<total_pages, batch_unset, batch_size, text_pages, final_text,
                   pages_batch, batch_start, page_num, writes, oob, renders,
                   recog_failed, page_img, combined>>
    /\ UNCHANGED <<unitVars, listVars, runVars, flagVars, poolVars, dispVars>>

\* extract_text_from_pdf has returned or raised: on return the record
\* "Text extracted in ..." is appended and the writers follow.
JobExtracted ==
    /\ jpc = "extract"
    /\ opc \in {"done", "raised"}
    /\ IF opc = "done"
          THEN /\ log_messages' = Append(log_messages,
                      <<"INFO", Msg("Text extracted", "extract", FALSE)>>)
               /\ jpc' = "pdf"
               /\ UNCHANGED result
          ELSE Fail(IF recog_failed # 0 THEN "recognition" ELSE "rendering")
    /\ UNCHANGED <<jkind, gen, docx_asked, log_path, cfg_quiet, cfg_summary,
                   temp_bound, calls, direct, console, dirs>>
    /\ UNCHANGED <<unitVars, listVars, runVars, flagVars, poolVars, dispVars, ocrVars>>

\* One stage of "Generate requested output formats": when the format is
\* enabled its writer runs; on success a record "... created in ..." is
\* appended, on failure the handler takes over. A disabled format is skipped.
JobWriter(w, nxt) ==
    /\ IF gen[w]
          THEN \/ /\ calls' = Append(calls, <<w, "ok">>)
                  /\ log_messages' = Append(log_messages,
                                        <<"INFO", Msg("created", w, FALSE)>>)
                  /\ jpc' = nxt
                  /\ UNCHANGED result
               \/ /\ calls' = Append(calls, <<w, "fail">>)
                  /\ Fail(w)
          ELSE /\ jpc' = nxt
               /\ UNCHANGED <<calls, log_messages, result>>
    /\ UNCHANGED <<jkind, gen, docx_asked, log_path, cfg_quiet, cfg_summary,
                   temp_bound, direct, console, dirs>>
    /\ UNCHANGED <<unitVars, listVars, runVars, flagVars, poolVars, dispVars, ocrVars>>

\* Variant: the HTML stage comes before the DOCX stage.
NextStage_HtmlFirst(w) ==
    IF w = "pdf" THEN "html" ELSE IF w = "html" THEN "docx" ELSE "epub"

\* The order of the "if config.generate_..." blocks of process_single_pdf:
\* PDF, DOCX, HTML, EPUB.
NextStage(w) ==
    IF w = "pdf" THEN "docx" ELSE IF w = "docx" THEN "html" ELSE "epub"

\* if config.generate_pdf: save_as_pdf(text_pages, out_path)
JobPdf ==
    /\ jpc = "pdf"
    /\ JobWriter("pdf", NextStage("pdf"))

\* if config.generate_docx: save_as_docx(text_pages, docx_output)
JobDocx ==
    /\ jpc = "docx"
    /\ JobWriter("docx", NextStage("docx"))

\* if config.generate_html: save_as_html(text_pages, html_output)
JobHtml ==
    /\ jpc = "html"
    /\ JobWriter("html", NextStage("html"))

\* convert_docx_to_epub(docx_output, epub_output, logger=logger,
\* quiet=config.quiet, lang=config.lang), as seen from outside the job: what it
\* writes through the job's own logger and console. The command line is
\* logged to the file; on success any captured output too; on failure the
\* full error output (when there is one) and then the error message.
EpubWrites(ok, out, m) ==
    (IF log_path
        THEN log_message(TRUE, "INFO", Msg("Running ebook-convert", "epub", TRUE),
                         TRUE, FALSE)
        ELSE <<>>)
    \o (IF ok
           THEN IF log_path /\ out
                   THEN log_message(TRUE, "INFO",
                                    Msg("ebook-convert output", "epub", TRUE),
                                    TRUE, FALSE)
                   ELSE <<>>
           ELSE (IF log_path /\ out
                    THEN log_message(TRUE, "ERROR",
                                     Msg("Full ebook-convert error output", "epub", TRUE),
                                     TRUE, FALSE)
                    ELSE <<>>)
                \o log_message(log_path, "ERROR", Msg("Error converting", "epub", m),
                               FALSE, FALSE))

\* The EPUB stage and the return that follows it. A conversion that reports
\* failure is turned into RuntimeError, which the handler catches.
JobEpub ==
    /\ jpc = "epub"
    /\ IF gen["epub"]
          THEN \E out \in BOOLEAN :
                  \/ /\ calls' = Append(calls, <<"epub", "ok">>)
                     /\ direct' = direct \o EpubWrites(TRUE, out, FALSE)
                     /\ log_messages' = Append(log_messages,
                                           <<"INFO", Msg("created", "epub", FALSE)>>)
                     /\ jpc' = "returned"
                     /\ result' = JobResult("ok", NoMsg, log_messages')
                  \/ \E m \in BOOLEAN :
                        /\ calls' = Append(calls, <<"epub", "fail">>)
                        /\ direct' = direct \o EpubWrites(FALSE, out, m)
                        /\ Fail("epub")
          ELSE /\ jpc' = "returned"
               /\ result' = JobResult("ok", NoMsg, log_messages)
               /\ UNCHANGED <<calls, direct, log_messages>>
    /\ UNCHANGED <<jkind, gen, docx_asked, log_path, cfg_quiet, cfg_summary,
                   temp_bound, console, dirs>>
    /\ UNCHANGED <<unitVars, listVars, runVars, flagVars, poolVars, dispVars, ocrVars>>

\* One stage of process_single_layout_pdf: it succeeds, or raises into the
\* handler. The OCR stage runs inside "with tempfile.TemporaryDirectory()".
LayoutStage(st, nxt, logs) ==
    /\ dirs' = IF st = "ocr" THEN Append(dirs, <<"job", "temp">>) ELSE dirs
    /\ \/ /\ jpc' = nxt
          /\ log_messages' = logs
          /\ result' = IF nxt = "returned" THEN JobResult("ok", NoMsg, logs)
                       ELSE result
       \/ Fail(st)
    /\ UNCHANGED <<jkind, gen, docx_asked, log_path, cfg_quiet, cfg_summary,
                   temp_bound, calls, direct, console>>
    /\ UNCHANGED <<unitVars, listVars, runVars, flagVars, poolVars, dispVars, ocrVars>>

\* with open(pdf_path, "rb"): total_pages = len(PdfReader(f).pages)
JobCount ==
    /\ jkind = "layout" /\ jpc = "count"
    /\ LayoutStage("count", "ocr", log_messages)

\* The render / tesseract loop; afterwards log_messages is replaced by the
\* single record "OCR processing took ...".
JobLayoutOcr ==
    /\ jkind = "layout" /\ jpc = "ocr"
    /\ LayoutStage("ocr", "merge",
                   << <<"INFO", Msg("OCR processing took", "ocr", FALSE)>> >>)

\* The page PDFs are merged into the temporary file.
JobMerge ==
    /\ jkind = "layout" /\ jpc = "merge"
    /\ LayoutStage("merge", "compress", log_messages)

\* Ghostscript compresses into out_path, the temporary file is removed, the
\* record "Layout-preserving PDF created ..." is appended and the job returns.
JobCompress ==
    /\ jkind = "layout" /\ jpc = "compress"
    /\ LayoutStage("compress", "returned",
                Append(log_messages, <<"INFO", Msg("created", "layout", FALSE)>>))

\* The calls of log_message the dispatcher's loop body makes for one future,
\* as <<level, message, quiet, summary>>: the header, every record of the
\* result, then the success or the failure line; for a future whose result()
\* raises, only the line "Error processing {filename}: ...".
ReplayCalls(res) ==
    LET hide == cfg_quiet \/ cfg_summary
    IN  IF res.kind = "raise"
           THEN << <<"ERROR", Msg("Error processing", "pool", res.error.ebook),
                     cfg_quiet, cfg_summary>> >>
           ELSE << <<"INFO", Msg("Processing:", "header", FALSE), hide, cfg_summary>> >>
                \o [k \in 1..Len(res.logs) |->
                       <<res.logs[k][1], res.logs[k][2], hide, cfg_summary>>]
                \o (IF res.kind = "ok"
                       THEN << <<"INFO", Msg("Completed successfully", "final", FALSE),
                                 hide, cfg_summary>> >>
                       ELSE IF res.error # NoMsg
                               THEN << <<"ERROR", Msg("Failed:", res.error.about,
                                                      res.error.ebook),
                                         cfg_quiet, cfg_summary>> >>
                               ELSE <<>>)

\* The dispatcher's loop body for the future of this job.
Replay ==
    /\ jpc \in {"returned", "raised"}
    /\ console' = Emit(ReplayCalls(result))
    /\ jpc' = "replayed"
    /\ UNCHANGED <<jkind, gen, docx_asked, log_path, cfg_quiet, cfg_summary,
                   temp_bound, log_messages, result, calls, direct, dirs>>
    /\ UNCHANGED <<unitVars, listVars, runVars, flagVars, poolVars, dispVars, ocrVars>>

\* ------------------------------------------------- the document list
\* File names are sequences of code points, so that lower(), endswith() and
\* the order of sorted() are the ones Python computes on str.
a_pdf  == <<97, 46, 112, 100, 102>>         \* "a.pdf"
B_PDF  == <<66, 46, 80, 68, 70>>            \* "B.PDF"
ab_pdf == <<97, 98, 46, 112, 100, 102>>     \* "ab.pdf"
a_txt  == <<97, 46, 116, 120, 116>>         \* "a.txt"
b_Pdf  == <<98, 46, 80, 100, 102>>          \* "b.Pdf"
DotPdf == <<46, 112, 100, 102>>             \* ".pdf"

\* The names a source directory is drawn from.
FileNames == {a_pdf, B_PDF, ab_pdf, a_txt, b_Pdf}

\* str.lower() on the letters A-Z
lower(s) == [i \in 1..Len(s) |-> IF s[i] \in 65..90 THEN s[i] + 32 ELSE s[i]]

\* str.endswith(suffix)
endswith(s, suffix) ==
    /\ Len(s) >= Len(suffix)
    /\ SubSeq(s, Len(s) - Len(suffix) + 1, Len(s)) = suffix

\* Variant: the suffix is compared without lower().
IsPdfName_CaseSensitive(f) == endswith(f, DotPdf)

\* f.lower().endswith(".pdf")
IsPdfName(f) == endswith(lower(f), DotPdf)

RECURSIVE StrLess(_, _)
\* a < b on str: lexicographic by code point, a proper prefix is smaller.
StrLess(a, b) ==
    IF b = <<>> THEN FALSE
    ELSE IF a = <<>> THEN TRUE
    ELSE IF a[1] # b[1] THEN a[1] < b[1]
    ELSE StrLess(Tail(a), Tail(b))

\* x put into the sorted sequence s, after the elements that are not greater.
Insert(x, s) ==
    LET k == Cardinality({i \in 1..Len(s) : ~StrLess(x, s[i])})
    IN  SubSeq(s, 1, k) \o <<x>> \o SubSeq(s, k + 1, Len(s))

RECURSIVE sorted(_)
\* Variant: the names are kept in the order os.listdir returned them.
sorted_AsListed(s) == s

\* sorted(iterable) on str: ascending, stable.
sorted(s) ==
    IF s = <<>> THEN <<>>
    ELSE Insert(s[Len(s)], sorted(SubSeq(s, 1, Len(s) - 1)))

\* The orders in which os.listdir may return the names of a directory.
ListOrders(S) ==
    {f \in [1..Cardinality(S) -> S] : \A i, j \in DOMAIN f : f[i] = f[j] => i = j}

\* pdf_files = sorted(f for f in os.listdir(config.source_dir)
\*                    if f.lower().endswith(".pdf"))
\* followed by "if not pdf_files: ... return".
ListDocuments ==
    /\ lpc = "list"
    /\ \E order \in ListOrders(dir_names) :
          /\ listing' = order
          /\ doc_list' = sorted(SelectSeq(order, IsPdfName))
    /\ lpc' = IF doc_list' = <<>> THEN "returned" ELSE "submit"
    /\ UNCHANGED <<dir_names, sub_names>>
    /\ UNCHANGED <<unitVars, runVars, flagVars, poolVars, dispVars, ocrVars, jobVars>>

\* future_to_file = {executor.submit(process_single_pdf, filename, config):
\*                   filename for filename in pdf_files}
\* one submission per step, in the iteration order of the list.
SubmitDocument ==
    /\ lpc = "submit"
    /\ sub_names' = Append(sub_names, doc_list[Len(sub_names) + 1])
    /\ lpc' = IF Len(sub_names') = Len(doc_list) THEN "loop" ELSE "submit"
    /\ UNCHANGED <<dir_names, listing, doc_list>>
    /\ UNCHANGED <<unitVars, runVars, flagVars, poolVars, dispVars, ocrVars, jobVars>>

\* ------------------------------------------------------- specifications
IdleOcr ==
    /\ opc = "idle"
    /\ total_pages = 0 /\ batch_unset = TRUE /\ batch_size = 0
    /\ text_pages = <<>> /\ final_text = <<>> /\ pages_batch = <<>>
    /\ batch_start = 0 /\ page_num = 0
    /\ writes = <<>> /\ oob = FALSE /\ renders = <<>>
    /\ recog_failed = 0
    /\ page_img = 0 /\ combined = <<>>

InitRun ==
    /\ shutdown_requested = FALSE
    /\ main_shutdown = FALSE
    /\ requested = FALSE
    /\ forced = FALSE
    /\ max_workers = 0
    /\ job = [i \in Docs |-> "none"]
    /\ outcome = [i \in Docs |-> "none"]
    /\ nowait = FALSE
    /\ finishSeq = <<>>
    /\ submitted = 0
    /\ acInitial = {}
    /\ acQueue = <<>>
    /\ cur = 0
    /\ delivered = {}
    /\ completed = 0 /\ successful = 0 /\ failed = 0 /\ errors = <<>>
    /\ foldSeq = <<>>
    /\ stream = <<>>
    /\ summary = NoSummary
    /\ notice = "none"
    /\ reqK = -1
    /\ reqPc = "none"
    /\ preDone = {}
    /\ subAfterReq = FALSE

NoArgs == [log_file |-> FALSE, level |-> "INFO", message |-> NoMsg,
           quiet |-> FALSE, summary |-> FALSE]

IdleLog == lm_pc = "idle" /\ lm_args = NoArgs /\ lm_out = <<>>

IdleTimer ==
    /\ clock = 0 /\ t_pc = "none" /\ start_time = 0 /\ duration = None
    /\ t_trace = <<>>

NoConfig ==
    [generate_docx |-> FALSE, generate_pdf |-> FALSE, generate_epub |-> FALSE,
     generate_html |-> FALSE, preserve_layout |-> FALSE, quiet |-> FALSE,
     source_found |-> TRUE, dpi |-> 400]

IdleConfig == v_pc = "idle" /\ config = NoConfig /\ given = NoConfig /\ v_out = <<>>

IdleUnits == IdleLog /\ IdleTimer /\ IdleConfig

IdleList ==
    /\ IdleUnits
    /\ lpc = "idle" /\ dir_names = {}
    /\ listing = <<>> /\ doc_list = <<>> /\ sub_names = <<>>

IdleJob ==
    /\ IdleList
    /\ jkind = "none" /\ jpc = "idle"
    /\ gen = [f \in Formats |-> FALSE] /\ docx_asked = FALSE
    /\ log_path = FALSE /\ cfg_quiet = FALSE /\ cfg_summary = FALSE
    /\ temp_bound = FALSE
    /\ log_messages = <<>> /\ result = NoResult
    /\ calls = <<>> /\ direct = <<>> /\ console = <<>> /\ dirs = <<>>

Init ==
    /\ dispatcher \in {"pdf", "layout", "main"}
    /\ pdf_files \in 0..MaxDocs
    /\ workers \in 0..MaxWorkers
    /\ pc = "start"
    /\ InitRun
    /\ stdout_encodes = TRUE
    /\ IdleOcr
    /\ IdleJob

Next ==
    \/ request_shutdown
    \/ force_exit
    \/ signal_handler
    \/ Begin
    \/ CreatePool
    \/ Submit
    \/ StartJob
    \/ FinishJob
    \/ AsCompletedStart
    \/ Deliver
    \/ LoopEnd
    \/ CheckShutdown
    \/ Fold
    \/ ExitPool
    \/ Summarize
    \/ SysExitUnwind

Spec == Init /\ [][Next]_vars

\* process_pdfs_with_ocr of converters/pdf.py alone, under the scheduling the
\* code relies on: the dispatcher thread keeps running, the pool keeps
\* starting queued jobs, and every running job eventually returns. Shutdown
\* requests come through state.py at any time, under no fairness.
InitPdf ==
    /\ dispatcher = "pdf"
    /\ pdf_files \in 0..MaxDocs
    /\ workers \in 0..MaxWorkers
    /\ pc = "start"
    /\ InitRun
    /\ stdout_encodes = TRUE
    /\ IdleOcr
    /\ IdleJob

DispatcherStep ==
    \/ Begin
    \/ CreatePool
    \/ Submit
    \/ AsCompletedStart
    \/ Deliver
    \/ LoopEnd
    \/ CheckShutdown
    \/ Fold
    \/ ExitPool
    \/ Summarize

NextPdf ==
    \/ request_shutdown
    \/ force_exit
    \/ StartJob
    \/ FinishJob
    \/ DispatcherStep

FairSpec ==
    /\ InitPdf /\ [][NextPdf]_vars
    /\ WF_vars(DispatcherStep)
    /\ WF_vars(StartJob)
    /\ WF_vars(FinishJob)

\* The dispatchers of Spec on a console whose encoding may lack the check
\* mark (PYTHONIOENCODING=ascii, a redirected cp1252 stream).
InitEncoding ==
    /\ dispatcher \in {"pdf", "layout", "main"}
    /\ pdf_files \in 0..MaxDocs
    /\ workers \in 0..MaxWorkers
    /\ stdout_encodes \in BOOLEAN
    /\ pc = "start"
    /\ InitRun
    /\ IdleOcr
    /\ IdleJob

SpecEncoding == InitEncoding /\ [][Next]_vars

\* Every dispatch loop of the repository: the two of converters/pdf.py, the
\* two of main.py and the one of converters.py.
InitAll ==
    /\ dispatcher \in {"pdf", "layout", "main", "main_layout", "legacy"}
    /\ pdf_files \in 0..MaxDocs
    /\ workers \in 1..MaxWorkers
    /\ pc = "start"
    /\ InitRun
    /\ stdout_encodes = TRUE
    /\ IdleOcr
    /\ IdleJob

SpecAll == InitAll /\ [][Next]_vars

\* The dispatcher under every verbosity setting (config.quiet, config.summary).
InitVerbosity ==
    /\ dispatcher \in {"pdf", "layout", "main"}
    /\ pdf_files \in 0..MaxDocs
    /\ workers \in 1..MaxWorkers
    /\ pc = "start"
    /\ InitRun
    /\ stdout_encodes = TRUE
    /\ IdleOcr
    /\ IdleList
    /\ jkind = "none" /\ jpc = "idle"
    /\ gen = [f \in Formats |-> FALSE] /\ docx_asked = FALSE
    /\ log_path = FALSE
    /\ cfg_quiet \in BOOLEAN
    /\ cfg_summary \in BOOLEAN
    /\ temp_bound = FALSE
    /\ log_messages = <<>> /\ result = NoResult
    /\ calls = <<>> /\ direct = <<>> /\ console = <<>> /\ dirs = <<>>

SpecVerbosity == InitVerbosity /\ [][Next]_vars

InitOcr ==
    /\ dispatcher = "pdf" /\ pdf_files = 0 /\ workers = 0
    /\ pc = "idle"
    /\ InitRun
    /\ stdout_encodes = TRUE
    /\ opc = "start"
    /\ total_pages \in 0..MaxPages
    /\ batch_unset \in BOOLEAN
    /\ batch_size \in IF batch_unset THEN {0} ELSE -1..(total_pages + 5)
    /\ text_pages = [i \in 1..total_pages |-> 0]
    /\ final_text = <<>>
    /\ pages_batch = <<>>
    /\ batch_start = 0 /\ page_num = 0
    /\ writes = [i \in 1..total_pages |-> 0]
    /\ oob = FALSE
    /\ renders = <<>>
    /\ recog_failed = 0
    /\ page_img = 0 /\ combined = <<>>
    /\ IdleJob

NextOcr == OcrBegin \/ OcrBatch \/ OcrPage \/ OcrReturn

SpecOcr == InitOcr /\ [][NextOcr]_vars

\* One document going through its job and the dispatcher's loop body.
InitJob ==
    /\ dispatcher = "pdf" /\ pdf_files = 0 /\ workers = 0
    /\ pc = "idle"
    /\ InitRun
    /\ stdout_encodes = TRUE
    /\ jkind \in {"pdf", "layout"}
    /\ jpc = "config"
    /\ opc = "idle"
    /\ total_pages \in IF jkind = "pdf" THEN 0..MaxPages ELSE {0}
    /\ batch_unset \in IF jkind = "pdf" THEN BOOLEAN ELSE {TRUE}
    /\ batch_size \in IF batch_unset THEN {0} ELSE 0..(total_pages + 1)
    /\ text_pages = [i \in 1..total_pages |-> 0]
    /\ final_text = <<>>
    /\ pages_batch = <<>>
    /\ batch_start = 0 /\ page_num = 0
    /\ writes = [i \in 1..total_pages |-> 0]
    /\ oob = FALSE
    /\ renders = <<>>
    /\ recog_failed = 0
    /\ page_img = 0 /\ combined = <<>>
    /\ gen \in IF jkind = "pdf" THEN [Formats -> BOOLEAN]
                ELSE {[f \in Formats |-> f = "pdf"]}
    /\ docx_asked = gen["docx"]
    /\ log_path \in BOOLEAN
    /\ cfg_quiet \in BOOLEAN
    /\ cfg_summary \in BOOLEAN
    /\ temp_bound = FALSE
    /\ log_messages = <<>> /\ result = NoResult
    /\ calls = <<>> /\ direct = <<>> /\ console = <<>> /\ dirs = <<>>
    /\ IdleList

NextJob ==
    \/ Validate
    \/ MakeDirs
    \/ JobLogger
    \/ JobPaths
    \/ OcrBegin
    \/ OcrBatch
    \/ OcrPage
    \/ OcrReturn
    \/ JobExtracted
    \/ JobPdf
    \/ JobDocx
    \/ JobHtml
    \/ JobEpub
    \/ JobCount
    \/ JobLayoutOcr
    \/ JobMerge
    \/ JobCompress
    \/ Replay

SpecJob == InitJob /\ [][NextJob]_vars

\* Everything but the unit under study is at rest.
IdleRest ==
    /\ dispatcher = "pdf" /\ pdf_files = 0 /\ workers = 0
    /\ pc = "idle"
    /\ InitRun
    /\ stdout_encodes = TRUE
    /\ IdleOcr
    /\ jkind = "none" /\ jpc = "idle"
    /\ gen = [f \in Formats |-> FALSE] /\ docx_asked = FALSE
    /\ log_path = FALSE /\ cfg_quiet = FALSE /\ cfg_summary = FALSE
    /\ temp_bound = FALSE
    /\ log_messages = <<>> /\ result = NoResult
    /\ calls = <<>> /\ direct = <<>> /\ console = <<>> /\ dirs = <<>>
    /\ lpc = "idle" /\ dir_names = {}
    /\ listing = <<>> /\ doc_list = <<>> /\ sub_names = <<>>

\* The levels and the message texts log_message is called with: texts the
\* dispatchers, the jobs and the EPUB converter build, each with and without
\* "ebook-convert" in its interpolated part.
LogLevels == {"INFO", "WARNING", "ERROR", "DEBUG", "HEADER"}
LogBodies == {"Processing:", "PDF2OCR v", "Using Tesseract language model:",
              "Processing Summary:", "Running ebook-convert",
              "ebook-convert output", "Full ebook-convert error output",
              "Error converting"}

\* One call of log_message on arbitrary arguments.
InitLog ==
    /\ IdleRest /\ IdleTimer /\ IdleConfig
    /\ lm_pc = "call"
    /\ lm_args \in [log_file : BOOLEAN, level : LogLevels,
                     message : {Msg(b, "", e) : b \in LogBodies, e \in BOOLEAN},
                     quiet : BOOLEAN, summary : BOOLEAN]
    /\ lm_out = <<>>

NextLog == LogMessage

SpecLog == InitLog /\ [][NextLog]_vars

\* One call of validate on any combination of its fields.
DpiValues == {-1, 0, 1, 400}

InitValidate ==
    /\ IdleRest /\ IdleLog /\ IdleTimer
    /\ v_pc = "call"
    /\ config \in [generate_docx : BOOLEAN, generate_pdf : BOOLEAN,
                    generate_epub : BOOLEAN, generate_html : BOOLEAN,
                    preserve_layout : BOOLEAN, quiet : BOOLEAN,
                    source_found : BOOLEAN, dpi : DpiValues]
    /\ given = config
    /\ v_out = <<>>

NextValidate == validate

SpecValidate == InitValidate /\ [][NextValidate]_vars

\* One Timer, constructed on its own or by timing_context, under any
\* interleaving of clock ticks, stops and reads.
InitTimer == IdleRest /\ IdleLog /\ IdleTimer /\ IdleConfig

NextTimer ==
    \/ Tick
    \/ TimerNew
    \/ ContextEnter
    \/ TimerStop
    \/ TimerRead
    \/ ContextExit

SpecTimer == InitTimer /\ [][NextTimer]_vars

\* The dispatcher building its document list from a directory and submitting it.
InitList ==
    /\ dispatcher = "pdf" /\ pdf_files = 0 /\ workers = 0
    /\ pc = "idle"
    /\ InitRun
    /\ stdout_encodes = TRUE
    /\ IdleOcr
    /\ jkind = "none" /\ jpc = "idle"
    /\ gen = [f \in Formats |-> FALSE] /\ docx_asked = FALSE
    /\ log_path = FALSE /\ cfg_quiet = FALSE /\ cfg_summary = FALSE
    /\ temp_bound = FALSE
    /\ log_messages = <<>> /\ result = NoResult
    /\ calls = <<>> /\ direct = <<>> /\ console = <<>> /\ dirs = <<>>
    /\ IdleUnits
    /\ lpc = "list"
    /\ dir_names \in SUBSET FileNames
    /\ listing = <<>> /\ doc_list = <<>> /\ sub_names = <<>>

NextList == ListDocuments \/ SubmitDocument

SpecList == InitList /\ [][NextList]_vars

\* =============================================================== claims
IsPrefix(s, t) == Len(s) <= Len(t) /\ \A i \in 1..Len(s) : s[i] = t[i]
Restrict(s, S) == SelectSeq(s, LAMBDA x : x \in S)
PastSubmit == pc \in {"loop", "check", "fold", "exit_pool", "summary", "returned"}

C3_DeliveredAreFolded ==
    (dispatcher = "pdf" /\ summary.emitted) =>
        /\ delivered \subseteq Range(foldSeq)
        /\ summary.completed = Cardinality(delivered)

\* C4: in main.py's process_pdfs_with_ocr a cooperative shutdown still
\* reports what was completed: when the function returns after the flag was
\* observed, a summary with the counts of the aggregated documents was emitted.
C4_MainSummaryOnShutdown ==
    (dispatcher = "main" /\ pdf_files >= 1 /\ pc = "returned" /\ main_shutdown) =>
        /\ summary.emitted
        /\ summary.completed = completed

\* C5: a second interrupt while shutdown is already requested forces the
\* exit: from then on the dispatcher does not complete (emit) the summary.
C5_ForceExitSkipsSummary ==
    [][forced => (summary'.emitted = summary.emitted)]_vars

\* C6: the shutdown flag is clear initially; once a request_shutdown() or
\* force_exit() call has returned, is_shutdown_requested() is true, and no
\* step of any caller or reader clears it again.
C6_FlagMonotone ==
    /\ ~is_shutdown_requested
    /\ [](dispatcher # "main" /\ requested => is_shutdown_requested)
    /\ [][ /\ shutdown_requested => shutdown_requested'
           /\ (request_shutdown \/ force_exit) => shutdown_requested' ]_vars

C6_Witness ==
    /\ requested /\ forced /\ is_shutdown_requested
    /\ pc = "returned" /\ notice = "shutdown"

\* C7: at every moment of a run of process_pdfs_with_ocr or
\* process_layout_pdf_only at most config.workers jobs execute at once, and
\* the pool, once created, has max_workers = config.workers.
C7_AtMostWorkersRunning ==
    (dispatcher \in {"pdf", "layout"}) =>
        /\ Cardinality(Running) <= workers
        /\ max_workers \in {0, workers}

C7_Witness ==
    /\ dispatcher = "layout" /\ workers >= 1
    /\ Cardinality(Running) = workers
    /\ Queued # {}

\* C8 (as stated): results are folded in completion order: if job A finishes
\* before job B, A's result is aggregated no later than B's.
C8_Original ==
    (dispatcher = "pdf") => IsPrefix(foldSeq, finishSeq)

\* C8 (amended): results are folded in the order as_completed yields them,
\* not in submission order: the jobs that had already finished when the
\* completion loop started are folded first, in no particular order among
\* themselves; the others are folded in the order they finish; and the loop
\* never waits while a finished result is unconsumed.
C8_CompletionOrder ==
    (dispatcher = "pdf" /\ PastSubmit) =>
        /\ IsPrefix(Restrict(foldSeq, Docs \ preDone),
                    Restrict(finishSeq, Docs \ preDone))
        /\ \A i, j \in 1..Len(foldSeq) :
              (foldSeq[i] \notin preDone /\ foldSeq[j] \in preDone) => j < i
        /\ (pc = "loop" /\ \E i \in Docs : job[i] = "done" /\ i \notin delivered)
              => NextYield(acInitial, acQueue) # {}

C8_Witness ==
    /\ dispatcher = "pdf" /\ pc = "returned" /\ ~requested
    /\ pdf_files >= 2 /\ preDone = {}
    /\ Len(foldSeq) = pdf_files
    /\ foldSeq[1] = 2 /\ foldSeq[2] = 1
    /\ finishSeq = foldSeq

\* C9: a cooperative shutdown never preempts work: a running job stays
\* running until it returns its own result; neither the dispatcher leaving
\* the loop nor the signal path cancels or ends it.
C9_NoPreemption ==
    /\ [](\A i \in Docs : job[i] # "cancelled")
    /\ [][\A i \in Docs :
            /\ job[i] = "running" =>
                  \/ job'[i] = "running"
                  \/ job'[i] = "done" /\ outcome'[i] \in {"ok", "fail", "raise"}
            /\ job[i] = "done" => job'[i] = "done" /\ outcome'[i] = outcome[i]
         ]_vars

C9_Witness ==
    /\ ShutdownSeen
    /\ pc \in {"exit_pool", "summary", "returned"}
    /\ Running # {}
    /\ \E i \in Docs : job[i] = "done" /\ i \in Range(finishSeq)
                       /\ i \notin Range(foldSeq)

\* C10: for total_pages >= 0 and batch_size unset, 1, total_pages or
\* total_pages + 5, extract_text_from_pdf stores into every page slot
\* 1..total_pages exactly once by the time it returns, never twice before,
\* and never stores outside that range.
C10_EachPageWrittenOnce ==
    (batch_unset \/ batch_size \in {1, total_pages, total_pages + 5}) =>
        /\ ~oob
        /\ \A i \in 1..total_pages : writes[i] <= 1
        /\ \A i \in 1..total_pages : (writes[i] = 1) <=> (text_pages[i] = i)
        /\ opc = "done" => \A i \in 1..total_pages : writes[i] = 1

C10_Witness ==
    /\ opc = "done" /\ total_pages >= 3
    /\ ~batch_unset /\ batch_size = 1
    /\ Len(renders) = total_pages
    /\ \A i \in 1..total_pages : writes[i] = 1

\* C11: with total_pages >= 1 and a batch size B >= 1 the render calls are
\* issued for the ranges [s, min(s + B - 1, total_pages)], s = 1, 1 + B, ...,
\* in ascending order: contiguous, non-overlapping, at most B pages each, and
\* on return covering 1..total_pages; B >= total_pages gives the one range
\* [1, total_pages], B = 1 gives total_pages single-page ranges.
C11_BatchRanges ==
    (~batch_unset /\ batch_size >= 1 /\ total_pages >= 1) =>
        /\ \A i \in 1..Len(renders) :
              /\ renders[i][1] = 1 + (i - 1) * batch_size
              /\ renders[i][2] = IF i * batch_size < total_pages
                                    THEN i * batch_size ELSE total_pages
              /\ renders[i][1] <= renders[i][2]
              /\ renders[i][2] - renders[i][1] + 1 <= batch_size
              /\ i > 1 => renders[i][1] = renders[i - 1][2] + 1
        /\ opc = "done" =>
              /\ Len(renders) >= 1
              /\ renders[Len(renders)][2] = total_pages
              /\ batch_size >= total_pages => renders = << <<1, total_pages>> >>
              /\ batch_size = 1 => Len(renders) = total_pages

C11_Witness ==
    /\ opc = "done" /\ ~batch_unset
    /\ total_pages = 3 /\ batch_size = 2
    /\ renders = << <<1, 2>>, <<3, 3>> >>

\* C14: when retrieving a job's result raises (a pool-level failure), the
\* dispatcher counts that document as failed, records a synthesized error
\* that names the document, propagates nothing and goes on with the remaining
\* completions: the only exception that leaves the dispatcher comes from
\* creating the pool, before any job is submitted.
C14_PoolFailureRecorded ==
    /\ [](pc = "raised" => submitted = 0)
    /\ [][(pc = "fold" /\ completed' = completed + 1 /\ outcome[cur] = "raise") =>
             /\ pc' = "loop"
             /\ failed' = failed + 1
             /\ successful' = successful
             /\ errors' = Append(errors, <<cur, <<"Error processing", cur>>>>)]_vars

C14_Witness ==
    /\ dispatcher = "pdf"
    /\ pc = "returned" /\ summary.emitted
    /\ Len(foldSeq) = 2
    /\ outcome[foldSeq[1]] = "raise" /\ outcome[foldSeq[2]] = "ok"
    /\ summary.failed = 1 /\ summary.successful = 1
    /\ summary.errors = << <<foldSeq[1], <<"Error processing", foldSeq[1]>>>> >>

C16_NothingPropagates ==
    pc # "raised"

\* C12: when the recognition of page p fails, extract_text_from_pdf raises
\* without recognizing any page after p and without trying p again, and the
\* enclosing process_single_pdf runs no format writer and returns a failure
\* result whose error is that failure, recorded as an ERROR log record.
C12_PageFailureAbortsJob ==
    /\ [](recog_failed # 0 =>
            /\ opc = "raised"
            /\ \A k \in 1..Len(final_text) : final_text[k] < recog_failed
            /\ writes[recog_failed] = 0
            /\ calls = <<>>
            /\ jpc \in {"extract", "returned", "replayed"}
            /\ jpc \in {"returned", "replayed"} =>
                  /\ result.kind = "fail"
                  /\ result.error.about = "recognition"
                  /\ result.logs = << <<"ERROR", result.error>> >>)
    /\ [][recog_failed # 0 =>
             UNCHANGED <<final_text, text_pages, writes, renders, recog_failed>>]_vars

C12_Witness ==
    /\ jkind = "pdf" /\ jpc = "returned"
    /\ total_pages = 3 /\ recog_failed = 2
    /\ final_text = <<1>>
    /\ gen["pdf"] /\ calls = <<>>
    /\ result.kind = "fail"

\* C13: process_single_pdf and process_single_layout_pdf always return a
\* (success, duration, error, log records) result and never raise past their
\* own boundary, whichever step fails.
C13_JobNeverRaises ==
    jpc # "raised"

\* C17: an ERROR-level message is printed to the error stream in every
\* verbosity mode whatever its text: every ERROR line the dispatcher emits for
\* a failed document or for a pool-level failure reaches stderr.
C17_ErrorsReachConsole ==
    jpc = "replayed" =>
        \A k \in 1..Len(ReplayCalls(result)) :
            LET c == ReplayCalls(result)[k]
            IN  c[1] = "ERROR" =>
                    \E j \in 1..Len(console) : console[j] = <<"stderr", "ERROR", c[2]>>

\* C18: a running job never writes to the shared console or the shared log
\* file: everything it reports reaches them only through the log records of
\* its result, at every stage, EPUB conversion and its failure paths included.
C18_NoDirectWrites ==
    direct = <<>>

\* C20: with EPUB output requested, the DOCX writer has completed
\* successfully for the document before the EPUB converter is invoked, also
\* when DOCX was not requested: the configuration step enables DOCX and
\* raises no error.
C20_DocxBeforeEpub ==
    /\ \A k \in 1..Len(calls) :
          calls[k][1] = "epub" => \E j \in 1..(k - 1) : calls[j] = <<"docx", "ok">>
    /\ (jkind = "pdf" /\ gen["epub"] /\ jpc # "config") => gen["docx"] /\ jpc # "rejected"

C20_Witness ==
    /\ jkind = "pdf" /\ ~docx_asked
    /\ calls = << <<"docx", "ok">>, <<"epub", "ok">> >>
    /\ jpc = "returned" /\ result.kind = "ok"

RECURSIVE Blocks(_, _)
Blocks(d, docs) ==
    IF docs = <<>> THEN <<>>
    ELSE Block(d, Head(docs), outcome[Head(docs)]) \o Blocks(d, Tail(docs))

\* The lines of the stream that belong to document i
LinesOf(i) == SelectSeq(stream, LAMBDA e : e[1] = i)

\* Every folded document has one contiguous block in the stream: its header,
\* the records of its result in the job's order and at their levels, then its
\* success or failure line; a document whose result could not be retrieved
\* has the single line that reports it.
ContiguousBlocks ==
    /\ stream = Blocks(dispatcher, foldSeq)
    /\ \A i \in Range(foldSeq) :
          /\ outcome[i] # "raise" =>
                /\ LinesOf(i)[1] = <<i, "INFO", "Processing:">>
                /\ \A k \in 1..Len(ResultLogs(outcome[i])) :
                      LinesOf(i)[k + 1] = <<i, ResultLogs(outcome[i])[k][1],
                                            ResultLogs(outcome[i])[k][2]>>
                /\ LinesOf(i)[Len(ResultLogs(outcome[i])) + 2][3] =
                      IF outcome[i] = "ok" THEN "Completed successfully" ELSE "Failed:"
                /\ Len(LinesOf(i)) = Len(ResultLogs(outcome[i])) + 2
          /\ outcome[i] = "raise" => LinesOf(i) = << <<i, "ERROR", "Error processing">> >>
    /\ \A a, b, c \in 1..Len(stream) :
          (a < b /\ b < c /\ stream[a][1] = stream[c][1]) => stream[b][1] = stream[a][1]

C21_AtMostOneBatchHeld ==
    (~batch_unset /\ batch_size >= 1) =>
        /\ Cardinality(Held) <= batch_size
        /\ opc = "batch" => Held = {}

\* C22: on successful return the page array has length total_pages, slot i
\* (0-based) holds the text recognized for page i + 1, and the combined text
\* is the page texts joined in ascending page order, for every batch size
\* (unset or B >= 1).
C22_PositionalResult ==
    (opc = "done" /\ (batch_unset \/ batch_size >= 1)) =>
        /\ Len(text_pages) = total_pages
        /\ \A i \in 1..total_pages : text_pages[i] = extract_text_from_image(i)
        /\ final_text = [i \in 1..total_pages |-> extract_text_from_image(i)]
        /\ combined = Join(text_pages)

C22_Witness ==
    /\ opc = "done" /\ ~batch_unset /\ batch_size = 2
    /\ total_pages = 3
    /\ text_pages = <<1, 2, 3>>
    /\ combined = <<1, 0, 2, 0, 3>>

C24_EmptyDocument ==
    (total_pages = 0 /\ (batch_unset \/ batch_size >= 1)) =>
        /\ ~batch_unset => (renders = <<>> /\ opc # "raised")
        /\ recog_failed = 0 /\ ~oob /\ page_img = 0 /\ final_text = <<>>
        /\ opc = "raised" => renders = << <<0, 0>> >>
        /\ opc = "done" => (text_pages = <<>> /\ combined = <<>>)

C24_Witness ==
    /\ total_pages = 0 /\ ~batch_unset /\ batch_size = 2
    /\ opc = "done"
    /\ renders = <<>> /\ text_pages = <<>> /\ combined = <<>>

\* A stage of the job has failed: its handler has appended an ERROR record.
StageFailed == \E k \in 1..Len(log_messages) : log_messages[k][1] = "ERROR"

\* The records of the stages that completed, in the order they completed.
CompletedRecords ==
    IF jkind = "layout"
       THEN SelectSeq(log_messages, LAMBDA r : r[1] = "INFO")
       ELSE (IF opc = "done"
                THEN << <<"INFO", Msg("Text extracted", "extract", FALSE)>> >>
                ELSE <<>>)
            \o [k \in 1..Len(SelectSeq(calls, LAMBDA c : c[2] = "ok")) |->
                   <<"INFO", Msg("created",
                                 SelectSeq(calls, LAMBDA c : c[2] = "ok")[k][1], FALSE)>>]

\* C25: whenever a stage of a job fails, the job's result has success = false
\* and a non-empty error message naming the document and the error's origin,
\* that message is the last log record, at level ERROR, and the log records
\* of the stages completed before the failure are preserved in the result.
C25_FailureResult ==
    StageFailed =>
        /\ jpc \in {"returned", "replayed"}
        /\ result.kind = "fail"
        /\ result.error # NoMsg
        /\ result.error.body = "Error in" /\ result.error.about # ""
        /\ result.logs = CompletedRecords \o << <<"ERROR", result.error>> >>

\* C28: when the source directory holds no PDF document, no dispatcher creates
\* a worker pool, submits a job, folds a result or emits a summary, and
\* process_pdfs_with_ocr (like the layout dispatcher) returns with the
\* "No PDF files found!" warning as the last notice it emitted.
C28_NoDocuments ==
    pdf_files = 0 =>
        /\ max_workers = 0
        /\ submitted = 0
        /\ completed = 0
        /\ ~summary.emitted
        /\ pc \in {"start", "returned", "raised", "sysexit", "exited"}
        /\ (pc = "returned" /\ dispatcher # "main") => notice = "nofiles"

C28_Witness ==
    pdf_files = 0 /\ dispatcher = "pdf" /\ pc = "returned" /\ notice = "nofiles"

\* The first n documents in list order.
FirstDocs(n) == [k \in 1..n |-> k]

\* C29 (as stated): with workers = 1 at most one job runs at any time, jobs
\* run one after another in submission order, and results are aggregated in
\* the sorted document order.
C29_Original ==
    (workers = 1) =>
        /\ Cardinality(Running) <= 1
        /\ finishSeq = FirstDocs(Len(finishSeq))
        /\ foldSeq = FirstDocs(Len(foldSeq))

\* C29 (amended): with workers = 1 at most one job runs at any time and jobs
\* run one after another in submission order; a result that completes after
\* the completion loop has started is aggregated as it completes, in sorted
\* document order, while the results that were already complete when the loop
\* started are aggregated first, in no particular order among themselves.
C29_SerialOrder ==
    (workers = 1) =>
        /\ Cardinality(Running) <= 1
        /\ \A i \in Docs : job[i] \in {"running", "done"} =>
                            \A j \in 1..(i - 1) : job[j] = "done"
        /\ finishSeq = FirstDocs(Len(finishSeq))
        /\ preDone = 1..Cardinality(preDone)
        /\ Len(foldSeq) <= Cardinality(preDone) => Range(foldSeq) \subseteq preDone
        /\ \A k \in 1..Len(foldSeq) : k > Cardinality(preDone) => foldSeq[k] = k

C29_Witness ==
    /\ workers = 1 /\ dispatcher = "pdf" /\ pdf_files = 2
    /\ pc = "returned" /\ summary.emitted
    /\ preDone = {1}
    /\ foldSeq = <<1, 2>>

\* The directories created by the dispatcher, in order of creation.
DispatcherDirs == SelectSeq(dirs, LAMBDA d : d[1] = "dispatcher")

\* C27: once the dispatcher's set-up is over, every output directory needed by
\* the enabled formats has been created by the dispatcher, before anything a
\* job creates and before any writer is called; the dispatcher creates each
\* one once, and no job creates an output directory.
C27_OutputDirs ==
    /\ jpc \notin {"config", "dirs", "dirs_failed", "rejected"} =>
           \A f \in Formats : gen[f] =>
               Cardinality({k \in 1..Len(dirs) : dirs[k] = <<"dispatcher", f>>}) = 1
    /\ \A i, j \in 1..Len(DispatcherDirs) :
           DispatcherDirs[i] = DispatcherDirs[j] => i = j
    /\ \A k \in 1..Len(dirs) : dirs[k][1] = "job" => dirs[k][2] \notin Formats
    /\ \A i, j \in 1..Len(dirs) :
           (dirs[i][1] = "dispatcher" /\ dirs[j][1] = "job") => i < j
    /\ jpc \in {"config", "dirs", "dirs_failed", "rejected"} =>
           /\ calls = <<>>
           /\ \A k \in 1..Len(dirs) : dirs[k][1] = "dispatcher"

C27_Witness ==
    /\ jkind = "pdf" /\ ~docx_asked /\ log_path
    /\ gen = [f \in Formats |-> f \in {"docx", "epub"}]
    /\ jpc = "replayed" /\ result.kind = "ok"
    /\ dirs = << <<"dispatcher", "docx">>, <<"dispatcher", "epub">>, <<"job", "log">> >>
    /\ calls = << <<"docx", "ok">>, <<"epub", "ok">> >>

\* C26: the document list is the names of the source directory that end in
\* ".pdf" whatever their case, in lexicographic order; it does not depend on
\* the order in which the directory was listed, so two runs over the same
\* directory build the same list; and the jobs are submitted in list order.
C26_SortedDocuments ==
    /\ lpc \notin {"idle", "list"} =>
           /\ doc_list = SelectSeq(<<B_PDF, a_pdf, ab_pdf, b_Pdf>>,
                                   LAMBDA f : f \in dir_names)
           /\ \A i, j \in 1..Len(doc_list) :
                  i < j => StrLess(doc_list[i], doc_list[j])
    /\ IsPrefix(sub_names, doc_list)
    /\ lpc = "loop" => sub_names = doc_list
    /\ lpc = "returned" => sub_names = <<>> /\ dir_names \subseteq {a_txt}

C26_Witness ==
    /\ lpc = "loop"
    /\ dir_names = FileNames
    /\ listing = <<b_Pdf, a_txt, ab_pdf, a_pdf, B_PDF>>
    /\ sub_names = <<B_PDF, a_pdf, ab_pdf, b_Pdf>>

RECURSIVE Aggregate(_)
\* The counts and the error list that a sequence of results
\* <<document, outcome>> determines, taken in order.
Aggregate(rs) ==
    IF rs = <<>>
       THEN [completed |-> 0, successful |-> 0, failed |-> 0, errors |-> <<>>]
       ELSE LET a == Aggregate(SubSeq(rs, 1, Len(rs) - 1))
                r == rs[Len(rs)]
            IN  [completed  |-> a.completed + 1,
                 successful |-> a.successful + (IF r[2] = "ok" THEN 1 ELSE 0),
                 failed     |-> a.failed + (IF r[2] = "ok" THEN 0 ELSE 1),
                 errors     |-> IF r[2] = "ok" THEN a.errors
                                ELSE Append(a.errors,
                                       <<r[1], <<IF r[2] = "raise"
                                                    THEN "Error processing"
                                                    ELSE "Error in", r[1]>> >>)]

\* The results aggregated so far, in aggregation order.
FoldedResults == [k \in 1..Len(foldSeq) |-> <<foldSeq[k], outcome[foldSeq[k]]>>]

Printed == \E k \in 1..Len(lm_out) : lm_out[k][1] \in {"stdout", "stderr"}

\* The message is output of the ebook-convert tool, as the EPUB converter
\* logs it.
IsToolOutput(msg) ==
    msg.body \in {"ebook-convert output", "Full ebook-convert error output"}

\* C31: log_message writes the message to the log file when one is provided,
\* whatever the mode; on the console, quiet mode prints only ERROR messages,
\* summary mode only errors, warnings, the version line, the language-model
\* line and the processing summary, and normal mode every message except
\* ebook-convert tool output.
C31_ConsolePolicy ==
    lm_pc = "done" =>
        /\ lm_args.log_file <=>
               (\E k \in 1..Len(lm_out) :
                    lm_out[k] = <<"file", lm_args.level, lm_args.message>>)
        /\ lm_args.quiet => (Printed <=> lm_args.level = "ERROR")
        /\ (~lm_args.quiet /\ lm_args.summary) =>
               (Printed <=>
                    \/ lm_args.level \in {"ERROR", "WARNING"}
                    \/ lm_args.message.body \in
                          {"PDF2OCR v", "Using Tesseract language model:",
                           "Processing Summary:"})
        /\ (~lm_args.quiet /\ ~lm_args.summary) =>
               (Printed <=> ~IsToolOutput(lm_args.message))

\* The calls of the trace that stop the timer.
Stops == {k \in 1..Len(t_trace) : t_trace[k][1] \in {"stop", "exit", "exit_raising"}}

\* C32: the first stop fixes the duration as the time elapsed since the
\* timer was constructed; every later stop and every later read returns
\* exactly that value; a read before any stop returns the time elapsed and
\* leaves the timer running; and once a timing_context block has been left,
\* normally or by an exception, its timer is stopped.
C32_SingleStop ==
    /\ \A k \in 1..Len(t_trace) :
           IF \E j \in Stops : j <= k
              THEN LET first == Min(Stops)
                   IN  /\ t_trace[k][3] = t_trace[first][2] - start_time
                       /\ duration = t_trace[first][2] - start_time
              ELSE t_trace[k][3] = t_trace[k][2] - start_time
    /\ Stops = {} <=> duration = None
    /\ t_pc = "left" => duration # None

C32_Witness ==
    /\ t_pc = "left"
    /\ start_time = 1
    /\ t_trace = << <<"read", 2, 1>>, <<"exit_raising", 2, 1>>, <<"stop", 3, 1>>,
                    <<"read", 3, 1>> >>

\* C33: in every dispatch loop the shutdown state is read before a delivered
\* completion is folded: a completion delivered while a shutdown had already
\* been requested is not folded.
C33_CheckBeforeFold ==
    [][(pc = "check" /\ requested) => pc' # "fold"]_vars

\* C38: in the dispatcher of converters.py, when no shutdown is ever
\* requested, the loop is not left early: every completion is aggregated and
\* the run ends with the summary, not with the interruption notice.
C38_LegacyNoSpuriousBreak ==
    (dispatcher = "legacy" /\ pdf_files >= 1 /\ pc = "returned" /\ ~requested) =>
        /\ Len(foldSeq) = pdf_files
        /\ summary.emitted
        /\ notice # "interrupted"

\* C34: once the dispatcher has observed a shutdown request and left the
\* completion loop, no job that is still queued starts running.
C34_NoStartAfterBreak ==
    [][(dispatcher \in {"pdf", "layout"} /\ notice = "shutdown") =>
           \A i \in DOMAIN job : job[i] = "queued" => job'[i] = "queued"]_vars

\* C35: for every integer batch_size, zero and negative ones included,
\* extract_text_from_pdf raises or returns with every page recognized: it
\* never returns with a slot of text_pages still holding the pre-allocated
\* empty value.
C35_NoUnwrittenSlot ==
    (opc = "done" /\ ~batch_unset) =>
        \A i \in 1..total_pages : writes[i] >= 1 /\ text_pages[i] = i

\* C36: if every job eventually returns, process_pdfs_with_ocr eventually
\* finishes: once it is about to create the pool for at least one document
\* with at least one worker, it eventually emits its summary (or the
\* interruption notice) and returns, whether or not a shutdown is requested
\* on the way.
C36_Finishes ==
    (dispatcher = "pdf" /\ pdf_files >= 1 /\ workers >= 1 /\ pc = "pool")
        ~> (pc = "returned" /\ (summary.emitted \/ notice = "interrupted"))

C36_Witness ==
    /\ dispatcher = "pdf" /\ pdf_files = 2 /\ workers = 1
    /\ pc = "returned" /\ summary.emitted
    /\ requested /\ notice = "shutdown"
    /\ \A i \in Docs : job[i] = "done"
    /\ Len(foldSeq) < pdf_files

\* C37: between two iterations of the completion loop of the dispatchers of
\* converters/pdf.py, and at the summary, completed = successful + failed,
\* completed <= N, and no document has been counted twice.
C37_CountersAgree ==
    (dispatcher \in {"pdf", "layout"} /\ pc \in {"loop", "exit_pool", "summary", "returned"}) =>
        /\ completed = successful + failed
        /\ completed <= pdf_files
        /\ completed = Len(foldSeq)
        /\ \A a, b \in 1..Len(foldSeq) : foldSeq[a] = foldSeq[b] => a = b

\* C39: on success the log records of process_single_pdf are one record for
\* the text extraction followed by one record per output format its
\* configuration asks for, in the order PDF, DOCX, HTML, EPUB, and nothing
\* else.
C39_SuccessRecords ==
    (jkind = "pdf" /\ jpc \in {"returned", "replayed"} /\ result.kind = "ok") =>
        LET asked == SelectSeq(<<"pdf", "docx", "html", "epub">>, LAMBDA f : gen[f])
        IN  /\ result.logs =
                  << <<"INFO", Msg("Text extracted", "extract", FALSE)>> >>
                  \o [k \in 1..Len(asked) |-> <<"INFO", Msg("created", asked[k], FALSE)>>]
            /\ log_messages = result.logs

C39_Witness ==
    /\ jkind = "pdf" /\ jpc = "returned" /\ result.kind = "ok"
    /\ ~gen["pdf"] /\ gen["docx"] /\ gen["html"] /\ gen["epub"] /\ ~docx_asked
    /\ Len(result.logs) = 4

\* C40: validate raises ValueError and changes no flag when no output format
\* is selected; otherwise, with preserve_layout set, it leaves generate_pdf
\* true and generate_docx, generate_epub and generate_html false, whatever
\* formats were requested.
C40_Validate ==
    v_pc \in {"returned", "raised"} =>
        /\ ~AnyFormat(given) => (v_pc = "raised" /\ config = given /\ v_out = <<>>)
        /\ (AnyFormat(given) /\ given.preserve_layout) =>
              /\ config.generate_pdf
              /\ ~config.generate_docx /\ ~config.generate_epub /\ ~config.generate_html
              /\ config.preserve_layout

C40_Witness ==
    /\ v_pc = "returned"
    /\ given.preserve_layout /\ ~given.generate_pdf
    /\ given.generate_epub /\ given.generate_html /\ ~given.generate_docx
    /\ config.generate_pdf /\ ~config.generate_html
    /\ ~given.quiet /\ Len(v_out) = 3

====
